---- MODULE Spec2Model ----
(***************************************************************************)
(* Goal tracking and progress reconciliation of the POS front-end          *)
(* (src/src/context/GoalContext.tsx, GoalProvider).                        *)
(*                                                                         *)
(* Time is the local calendar day.  Every comparison the code makes on a   *)
(* goal's period is against a day boundary (00:00:00.000 / 23:59:59.999)   *)
(* or a month boundary, so an instant is represented by the local day that *)
(* contains it: start <= todayEnd iff day(start) <= today, and             *)
(* end >= todayStart iff day(end) >= today.                                *)
(***************************************************************************)
EXTENDS Integers, Sequences, FiniteSets, Bags, TLC

(***************************************************************************)
(* Bounds of the model.                                                    *)
(***************************************************************************)
\* local midnights that may pass during a run
MaxAdvance == 1
\* goals the Goal Store holds when the session starts
MaxInitGoals == 2
\* goals the Goal Store accepts in all; beyond it createGoal fails
MaxStore == 4
\* the loadGoals, updateGoalProgress and checkGoalAchievements invocations
\* followed at a time; one that is called beyond the bound runs up to its
\* first await, and the call it awaits does not settle
MaxLoads == 2
MaxUpdates == 1
MaxChecks == 2
\* the calls of consumers, ticks, sign-ins, sign-outs, remounts and reloads
\* followed in one behaviour
MaxEvents == 4
\* the same, in the behaviours of the reconciliation
ReconcileEvents == 2
\* the same, in the behaviours in which every remote call settles
CatchEvents == 3

(***************************************************************************)
(* Calendar: a date is (year * 12 + month) * 32 + dayOfMonth, month 0..11  *)
(* as in JavaScript, so dates are ordered as integers.                     *)
(***************************************************************************)
MkDate(y, m, d) == (y * 12 + m) * 32 + d
MonthIndex(t) == t \div 32
getFullYear(t) == (t \div 32) \div 12
getMonth(t) == (t \div 32) % 12
getDate(t) == t % 32

IsLeap(y) == (y % 4 = 0 /\ y % 100 # 0) \/ y % 400 = 0

\* new Date(y, m + 1, 0).getDate(): the last day of month m of year y
DaysInMonth(y, m) ==
    IF m \in {0, 2, 4, 6, 7, 9, 11} THEN 31
    ELSE IF m \in {3, 5, 8, 10} THEN 30
    ELSE IF IsLeap(y) THEN 29 ELSE 28

\* new Date(y, m, 1) and new Date(y, m + 1, 0) with JavaScript's month
\* normalisation: month index mi = y * 12 + m, so month -1 is December of y-1
MonthStart(mi) == mi * 32 + 1
MonthEnd(mi) == mi * 32 + DaysInMonth(mi \div 12, mi % 12)

NextDay(t) ==
    IF getDate(t) < DaysInMonth(getFullYear(t), getMonth(t))
    THEN t + 1 ELSE MonthStart(MonthIndex(t) + 1)
PrevDay(t) ==
    IF getDate(t) > 1 THEN t - 1 ELSE MonthEnd(MonthIndex(t) - 1)

\* Date.prototype.toDateString(): one string per local calendar day
toDateString(t) == t
\* `${now.getFullYear()}-${now.getMonth()}`: one string per calendar month
MonthKey(t) == getFullYear(t) * 12 + getMonth(t)

(***************************************************************************)
(* Goals.  period_start / period_end = 0 models an absent bound.           *)
(***************************************************************************)
Goal(i, ty, ps, pe, amt, st) ==
    [id |-> i, goal_type |-> ty, period_start |-> ps, period_end |-> pe,
     target_amount |-> amt, store_id |-> st]
\* null
NoGoal == Goal(0, "none", 0, 0, 0, "none")
\* a Local Cache string that JSON.parse rejects
Malformed == Goal(0, "malformed", 0, 0, 0, "none")

Stores == {"S1", "S2"}
\* the users of useAuth(): one with a store, one without store_id
NoUser == [id |-> "none", store_id |-> "none"]
Users == {[id |-> "u1", store_id |-> "S1"], [id |-> "u0", store_id |-> "none"]}
\* the user of store S1
StoreUser == CHOOSE u \in Users : u.store_id = "S1"
\* a user of the second store, on the same browser
OtherUser == [id |-> "u2", store_id |-> "S2"]

Tracks == {"daily", "monthly"}

\* Goals the Goal Store may hold for store S1 at the start of a session that
\* begins on day d0.
Pool(d0) ==
    LET mi == MonthIndex(d0) IN
    << Goal(1, "monthly", MonthStart(mi - 1), MonthEnd(mi - 1), 100000, "S1"),
       Goal(2, "monthly", MonthStart(mi), MonthEnd(mi), 100000, "S1"),
       Goal(3, "monthly", 0, 0, 0, "S1"),
       Goal(4, "daily", d0, d0, 100, "S1"),
       Goal(5, "daily", PrevDay(d0), PrevDay(d0), 70, "S1"),
       Goal(6, "daily", d0, 0, 50, "S1"),
       Goal(7, "monthly", MonthStart(mi + 1), MonthEnd(mi + 1), 300, "S1") >>
PoolSize == Len(Pool(MkDate(2024, 0, 1)))

\* the days a session may start on: year end, the eve of a 30-day month,
\* a leap day's eve and a mid-month day
StartDates ==
    { MkDate(2023, 11, 31), MkDate(2024, 4, 31), MkDate(2024, 1, 28),
      MkDate(2024, 5, 15) }

\* the listings of at most MaxInitGoals goals of the pool, in pool order
RECURSIVE IndexSeqs(_)
IndexSeqs(n) ==
    IF n = 0 THEN {<< >>}
    ELSE LET S == IndexSeqs(n - 1) IN
         S \cup { Append(s, i) : s \in { x \in S : Len(x) = n - 1 },
                                 i \in 1..PoolSize }
Increasing(s) == \A i, j \in 1..Len(s) : i < j => s[i] < s[j]
InitStores(d0) ==
    { [k \in 1..Len(s) |-> Pool(d0)[s[k]]] :
        s \in { x \in IndexSeqs(MaxInitGoals) : Increasing(x) } }

\* Local Cache backups left by an earlier session
InitCaches(d0) ==
    { <<NoGoal, NoGoal>>,
      <<Pool(d0)[4], Pool(d0)[2]>>,
      <<Pool(d0)[5], Pool(d0)[1]>>,
      <<Malformed, Pool(d0)[2]>>,
      <<Pool(d0)[4], Malformed>> }

(***************************************************************************)
(* State.                                                                  *)
(***************************************************************************)
VARIABLES
    now,            \* the local calendar day
    advances,       \* midnights passed so far
    budget,         \* the calls of consumers and the events still followed
    user,           \* useAuth(): the authenticated user, or NoUser
    goalStore,      \* the Goal Store: the active goals, in listing order
    localStorage,   \* the Local Cache
    state,          \* the reducer's GoalState
    load,           \* the loadGoals invocations
    upd,            \* the updateGoalProgress invocations
    chk,            \* the checkGoalAchievements invocations
    render,         \* GoalProvider's last commit and its effects still to run
    notifyLog,      \* the bag of calls of notificationManager.showNotification
    timers,         \* the number of setInterval handles not yet cleared
    modal,          \* EnhancedPaymentModal: its props, state and calls
    app,            \* AppProvider: its state and loadInitialData runs
    audit           \* AuditAnalytics: its state and stats requests

vars == <<now, advances, budget, user, goalStore, localStorage, state, load,
          upd, chk, render, notifyLog, timers, modal, app, audit>>
\* the goal engine's variables and the other components' variables
engineVars == <<now, advances, budget, user, goalStore, localStorage, state, load,
                upd, chk, render, notifyLog, timers>>

\* loadGoals is called by the mount effect and by the context's consumers
Loaders == {"mount", "manual"}
\* updateGoalProgress is called by the goals effect, the 30 minute timer and
\* the context's consumers
Updaters == {"effect", "timer", "manual"}
\* checkGoalAchievements is called by the progress effect and by consumers
Checkers == {"effect", "manual"}

NoProgress ==
    [goal |-> NoGoal, current_amount |-> 0, pct_num |-> 0, pct_den |-> 1,
     is_achieved |-> FALSE, set |-> FALSE]
NoCelebration ==
    [goalType |-> "none", goalAmount |-> 0, actualAmount |-> 0, achieved_at |-> 0]

initialState ==
    [dailyGoal |-> NoGoal, monthlyGoal |-> NoGoal,
     dailyProgress |-> NoProgress, monthlyProgress |-> NoProgress,
     loading |-> FALSE, error |-> "null", lastCelebration |-> NoCelebration]

\* EnhancedPaymentModal before it is opened: no total, no payment method,
\* no onProcessPayment call in flight
ClosedModal ==
    [totalAmount |-> 0, paymentMethods |-> << >>, calls |-> << >>]

\* AppProvider before it is mounted: its isLoadingData and loading state,
\* whether the effect of its last commit is still to run, and the
\* loadInitialData runs in flight
IdleApp ==
    [mounted |-> FALSE, isLoadingData |-> FALSE, loading |-> FALSE,
     pending |-> FALSE, runs |-> << >>]

\* the first render of AppProvider: its effect runs
MountApp == [IdleApp EXCEPT !.mounted = TRUE, !.pending = TRUE]

\* AuditAnalytics before its first effect: its state and the time ranges of
\* useState<AuditStats | null>(null)
NoStats == [timeRange |-> "null", start_date |-> 0, end_date |-> 0]

\* the stats requests in flight
IdleAudit ==
    [mounted |-> FALSE, timeRange |-> "30d", stats |-> NoStats,
     loading |-> TRUE, error |-> "null", requests |-> << >>]

\* the locals of one loadGoals invocation; by is its caller, calls lists the
\* createGoal calls it has issued, remoteLen is the length of the list
\* getGoals returned and cacheRead records whether it read the Local Cache
IdleLoad ==
    [pc |-> "idle", by |-> "none", live |-> TRUE, store_id |-> "none",
     apiSuccess |-> FALSE,
     remoteLen |-> 0, cacheRead |-> FALSE, existingGoals |-> << >>, now |-> 0,
     dailyGoal |-> NoGoal, monthlyGoal |-> NoGoal, lastMonthly |-> NoGoal,
     calls |-> << >>]

(***************************************************************************)
(* loadGoals: the pure parts.                                              *)
(***************************************************************************)
Min(S) == CHOOSE x \in S : \A y \in S : x <= y

\* apiService.getGoals({store_id, is_active: true})
getGoals(store) == SelectSeq(goalStore, LAMBDA g : g.store_id = store)

\* variant: a fallback taken on a failed call only
ShouldReadCacheOnFailureOnly(apiSuccess, existingGoals) == ~apiSuccess

\* the condition of the localStorage fallback
ShouldReadCache(apiSuccess, existingGoals) ==
    ~apiSuccess \/ Len(existingGoals) = 0

\* what the fallback pushes: JSON.parse of the daily entry, then of the
\* monthly entry; the first parse failure ends the block
CacheCandidates(backupDaily, backupMonthly) ==
    IF backupDaily = Malformed THEN << >>
    ELSE LET d == IF backupDaily # NoGoal THEN <<backupDaily>> ELSE << >> IN
         IF backupMonthly = NoGoal \/ backupMonthly = Malformed
         THEN d ELSE d \o <<backupMonthly>>

HasBounds(g) == g.period_start # 0 /\ g.period_end # 0

\* the predicate of existingGoals.find for the daily goal
IsValidDaily(g, t) ==
    /\ g.goal_type = "daily"
    /\ HasBounds(g) => (g.period_start <= t /\ g.period_end >= t)

\* variant: a monthly find that ignores the period
IsValidMonthlyAnyPeriod(g, t) == g.goal_type = "monthly"

\* the predicate of existingGoals.find for the monthly goal
IsValidMonthly(g, t) ==
    /\ g.goal_type = "monthly"
    /\ HasBounds(g) => ( /\ g.period_start <= MonthEnd(MonthIndex(t))
                         /\ g.period_end >= MonthStart(MonthIndex(t)) )

\* variant: last month computed without the year wrap
IsLastMonthlySameYear(g, t) ==
    /\ g.goal_type = "monthly"
    /\ HasBounds(g)
    /\ getFullYear(g.period_start) = getFullYear(t)
    /\ getMonth(g.period_start) = getMonth(t) - 1

\* the predicate of existingGoals.find for last month's goal
IsLastMonthly(g, t) ==
    /\ g.goal_type = "monthly"
    /\ HasBounds(g)
    /\ MonthIndex(g.period_start) = MonthIndex(t) - 1

\* Array.prototype.find(...) || null
FindDaily(s, t) ==
    LET I == { i \in DOMAIN s : IsValidDaily(s[i], t) } IN
    IF I = {} THEN NoGoal ELSE s[Min(I)]
FindMonthly(s, t) ==
    LET I == { i \in DOMAIN s : IsValidMonthly(s[i], t) } IN
    IF I = {} THEN NoGoal ELSE s[Min(I)]
FindLastMonthly(s, t) ==
    LET I == { i \in DOMAIN s : IsLastMonthly(s[i], t) } IN
    IF I = {} THEN NoGoal ELSE s[Min(I)]

\* variant: a carry-over without the day gate
isAnyDayOfMonth(t) == getDate(t) >= 1

isFirstDayOfMonth(t) == getDate(t) = 1

\* variant: days remaining not counting today
daysRemainingAfterToday(t) ==
    LET d == DaysInMonth(getFullYear(t), getMonth(t)) - getDate(t) IN
    IF d < 1 THEN 1 ELSE d

\* Math.max(1, endOfMonth.getDate() - now.getDate() + 1)
daysRemaining(t) ==
    LET d == DaysInMonth(getFullYear(t), getMonth(t)) - getDate(t) + 1 IN
    IF d < 1 THEN 1 ELSE d

\* Math.ceil(a / b) for a >= 0, b >= 1
Ceil(a, b) == (a + b - 1) \div b

\* Math.ceil((monthlyGoal.target_amount || 0) / daysRemaining)
suggestedDaily(monthlyGoal, t) == Ceil(monthlyGoal.target_amount, daysRemaining(t))

\* the argument of the carry-over createGoal
CarryCall(lastMonthly, t, store) ==
    [goal_type |-> "monthly", target_amount |-> lastMonthly.target_amount,
     period_start |-> MonthStart(MonthIndex(t)),
     period_end |-> MonthEnd(MonthIndex(t)), store_id |-> store]

\* the argument of the auto-derivation createGoal
DeriveCall(monthlyGoal, t, store) ==
    [goal_type |-> "daily", target_amount |-> suggestedDaily(monthlyGoal, t),
     period_start |-> t, period_end |-> t, store_id |-> store]

\* the goal apiService.createGoal returns: the Goal Store assigns the id
createdGoal(call) ==
    Goal(PoolSize + Len(goalStore) + 1, call.goal_type, call.period_start,
         call.period_end, call.target_amount, call.store_id)

\* localStorage.setItem of the backups
SaveBackup(ls, rec) ==
    LET a == IF rec.dailyGoal # NoGoal
             THEN [ls EXCEPT !.goal_daily[rec.store_id] = rec.dailyGoal]
             ELSE ls
    IN IF rec.monthlyGoal # NoGoal
       THEN [a EXCEPT !.goal_monthly[rec.store_id] = rec.monthlyGoal]
       ELSE a

\* variant: goals dispatched only when the monthly track is resolved
PublishGoalsWhenMonthly(st, rec) ==
    IF rec.live /\ rec.monthlyGoal # NoGoal
    THEN [st EXCEPT !.dailyGoal = rec.dailyGoal, !.monthlyGoal = rec.monthlyGoal]
    ELSE st

\* dispatch of SET_DAILY_GOAL and SET_MONTHLY_GOAL; a provider that was
\* torn down ignores the dispatch
PublishGoals(st, rec) ==
    IF rec.live
    THEN [st EXCEPT !.dailyGoal = rec.dailyGoal, !.monthlyGoal = rec.monthlyGoal]
    ELSE st

\* finally: dispatch SET_LOADING false
FinishLoading(st, rec) ==
    IF rec.live THEN [st EXCEPT !.loading = FALSE] ELSE st

\* variant: a derivation that does not require a monthly goal
NeedsDerivationWithoutMonthly(rec) == rec.dailyGoal = NoGoal

NeedsDerivation(rec) == rec.dailyGoal = NoGoal /\ rec.monthlyGoal # NoGoal

(***************************************************************************)
(* Renders and effects.  A dispatch changes the reducer's state at once;   *)
(* the functions of a render keep reading the state of that render.  The   *)
(* effects of a commit run one after the other, in the order of their      *)
(* declaration and before any event handler, timer callback or             *)
(* continuation of an await; each runs with the functions of the commit's  *)
(* render, and what they dispatch is rendered after the last of them.  Of  *)
(* the state a render closes over, only dailyProgress can differ from the  *)
(* reducer's state while the effects of a commit run:                      *)
(* resetDailyGoalsForNewDay is the only dispatch of a dependency that an   *)
(* effect makes before its first await.  Dependencies are compared by      *)
(* identity: an object that is dispatched is a new one, except the goal    *)
(* in state that a consumer passes to a setter.                            *)
(***************************************************************************)
\* the effects of GoalProvider, by what they do: call updateGoalProgress,
\* call loadGoals, set the 30 minute interval, call resetDailyGoalsForNewDay
\* and call checkGoalAchievements
Effects == {"goals", "load", "timer", "reset", "achievement"}

\* a call of a consumer, a tick of the timer, a sign-in or sign-out, a
\* remount or a reload of the page: one of the events still followed
Spend == budget > 0 /\ budget' = budget - 1

\* a call made by an effect of the provider, or one made from outside
Called(by) == IF by \in {"mount", "effect"} THEN budget' = budget ELSE Spend

\* the place of an effect among the useEffect calls of GoalProvider
Order(x) ==
    CASE x = "goals" -> 1
      [] x = "load" -> 2
      [] x = "timer" -> 3
      [] x = "reset" -> 4
      [] OTHER -> 5

\* effect x is the next effect of the last commit to run
First(x) == x \in render.pending /\ \A y \in render.pending : Order(x) <= Order(y)

\* every effect of the last commits has run: handlers, callbacks and
\* continuations run now
Quiet == render.pending = {} /\ ~app.pending

\* a field that was dispatched with a new object is a changed dependency,
\* unless it was null and is null
Changed(st0, st1, fresh, f, none) ==
    f \in fresh /\ (st0[f] # none \/ st1[f] # none)

\* the effects whose dependency arrays changed between two renders; useAuth
\* returned a new user object when "user" is in fresh.  The mount effect
\* depends on the values of isAuthenticated, user?.id and user?.store_id
Scheduled(st0, st1, u0, u1, fresh) ==
    LET newUser == "user" \in fresh /\ (u0 # NoUser \/ u1 # NoUser)
        dailyGoal == Changed(st0, st1, fresh, "dailyGoal", NoGoal)
        monthlyGoal == Changed(st0, st1, fresh, "monthlyGoal", NoGoal)
        dailyProgress == Changed(st0, st1, fresh, "dailyProgress", NoProgress)
        monthlyProgress ==
            Changed(st0, st1, fresh, "monthlyProgress", NoProgress)
    IN { x \in Effects :
           \/ x = "goals" /\ (newUser \/ dailyGoal \/ monthlyGoal)
           \/ x = "load" /\ u0 # u1
           \/ x = "timer" /\ (newUser \/ dailyGoal \/ monthlyGoal)
           \/ x = "reset" /\ (newUser \/ dailyGoal)
           \/ x = "achievement" /\ (\/ dailyProgress \/ monthlyProgress
                                    \/ dailyGoal \/ monthlyGoal) }

\* GoalProvider before it is mounted.  A render holds the dailyProgress its
\* functions read, its effects still to run, the dependencies those effects
\* have dispatched, the goals in state that are a consumer's object, and
\* whether the timer effect holds an interval
NoRender ==
    [mounted |-> FALSE, dailyProgress |-> NoProgress, pending |-> {},
     fresh |-> {}, own |-> {}, interval |-> FALSE]

\* the first render of a provider: every effect runs
MountRender == [NoRender EXCEPT !.mounted = TRUE, !.pending = Effects]

\* the render of state st, with its effects still to run
Commit(st, pending) ==
    [render EXCEPT !.dailyProgress = st.dailyProgress, !.fresh = {},
                   !.pending = IF render.mounted THEN pending ELSE {}]

\* an event handler, a timer callback or the continuation of an await has
\* dispatched the fields in fresh, after which the goals in own are a
\* consumer's object: the render that follows
Rerender(fresh, own) ==
    render' = [Commit(state', Scheduled(state, state', user, user', fresh))
                 EXCEPT !.own = own]

\* effect x has run and dispatched the fields in fresh: the later effects of
\* the commit are left to run with the same render, and after the last one
\* what the effects dispatched is rendered
Flushed(x, fresh) ==
    IF render.pending # {x}
    THEN [render EXCEPT !.pending = @ \ {x}, !.fresh = @ \cup fresh]
    ELSE Commit(state', Scheduled(state', state', user, user,
                                  render.fresh \cup fresh))

AfterEffect(x, fresh) == render' = Flushed(x, fresh)

(***************************************************************************)
(* Invocations.  Every call of loadGoals, updateGoalProgress and           *)
(* checkGoalAchievements is an invocation of its own, whatever else is in  *)
(* flight; it is followed in a place that holds no invocation in flight.   *)
(***************************************************************************)
\* the place of a new invocation, 0 when every place is taken
Slot(free) == IF free = {} THEN 0 ELSE Min(free)

\* the invocations with a new one that has reached its first await
Put(pool, i, rec) == IF i = 0 THEN pool ELSE [pool EXCEPT ![i] = rec]

FreeLoads == { i \in DOMAIN load : load[i].pc \in {"idle", "done", "skipped", "caught"} }
FreeUpdates == { i \in DOMAIN upd : upd[i].pc \in {"idle", "skipped"} }
FreeChecks == { i \in DOMAIN chk : chk[i].pc \in {"idle", "threw"} }

(***************************************************************************)
(* The 30 minute timer effect.                                             *)
(***************************************************************************)
\* variant: a cleanup that clears nothing
ClearTimerNever(n, interval) == n

\* the cleanup the effect returned, if it had set an interval: clearInterval
ClearTimer(n, interval) == IF interval THEN n - 1 ELSE n
\* the effect: setInterval when there is an authenticated user
SetTimer(n, u) == IF u # NoUser THEN n + 1 ELSE n

\* the effect on [isAuthenticated, user, updateGoalProgress]: the cleanup of
\* its last run, then setInterval
TimerEffect ==
    /\ First("timer")
    /\ timers' = SetTimer(ClearTimer(timers, render.interval), user)
    /\ UNCHANGED <<modal, app, audit>>
    /\ UNCHANGED <<now, advances, budget, user, goalStore, localStorage, state, load,
                   upd, chk, notifyLog>>
    /\ render' = [Flushed("timer", {}) EXCEPT !.interval = user # NoUser]

(***************************************************************************)
(* loadGoals: the steps between its awaits.                                *)
(***************************************************************************)
\* the goals a live invocation dispatches are new objects
Published(rec) == IF rec.live THEN {"dailyGoal", "monthlyGoal"} ELSE {}

\* from the backup writes to the next await, or to the end
PublishAndContinue(l, rec) ==
    /\ localStorage' = SaveBackup(localStorage, rec)
    /\ IF NeedsDerivation(rec)
       THEN /\ state' = PublishGoals(state, rec)
            /\ load' = [load EXCEPT ![l] =
                  [rec EXCEPT !.pc = "derive",
                     !.calls = Append(rec.calls,
                        DeriveCall(rec.monthlyGoal, rec.now, rec.store_id))]]
       ELSE /\ state' = FinishLoading(PublishGoals(state, rec), rec)
            /\ load' = [load EXCEPT ![l] = [rec EXCEPT !.pc = "done"]]

\* variant: a start that also clears the error field
StartLoadingClearingError(st) == [st EXCEPT !.loading = TRUE, !.error = "null"]

\* dispatch SET_LOADING true
StartLoading(st) == [st EXCEPT !.loading = TRUE]

\* variant: guards that do not look at store_id
CanLoadWithoutStore(u) == u # NoUser

\* the guards at entry: an authenticated user with a store_id
CanLoad(u) == u # NoUser /\ u.store_id # "none"

\* loadGoals called by l, the guards passing: SET_LOADING true and the
\* getGoals request.  The mount effect calls as an effect of its commit
LoadStart(l) ==
    /\ IF l = "mount" THEN First("load") ELSE Quiet
    /\ Called(l)
    /\ CanLoad(user)
    /\ state' = StartLoading(state)
    /\ load' = Put(load, Slot(FreeLoads),
          [IdleLoad EXCEPT !.pc = "getGoals", !.by = l,
                           !.store_id = user.store_id])
    /\ UNCHANGED <<modal, app, audit>>
    /\ UNCHANGED <<now, advances, user, goalStore, localStorage, upd, chk,
                   notifyLog, timers>>
    /\ IF l = "mount" THEN AfterEffect("load", {})
       ELSE Rerender({}, render.own)

\* loadGoals called by a consumer, a guard failing: the early return
LoadSkip(l) ==
    /\ Quiet
    /\ Spend
    /\ ~CanLoad(user)
    /\ load' = Put(load, Slot(FreeLoads),
          [IdleLoad EXCEPT !.pc = "skipped", !.by = l])
    /\ UNCHANGED <<modal, app, audit>>
    /\ UNCHANGED <<now, advances, user, goalStore, localStorage, state, upd,
                   chk, notifyLog, timers>>
    /\ UNCHANGED render

\* the mount effect: loadGoals for an authenticated user with a store_id
LoadEffect ==
    IF CanLoad(user)
    THEN LoadStart("mount")
    ELSE /\ First("load")
         /\ UNCHANGED <<modal, app, audit>>
         /\ UNCHANGED <<now, advances, budget, user, goalStore, localStorage, state,
                        load, upd, chk, notifyLog, timers>>
         /\ AfterEffect("load", {})

\* the locals of invocation l once getGoals has settled: fallback, selection,
\* and the goal to carry over, if any
Selection(l, ok) ==
    LET me == load[l]
        remote == IF ok THEN getGoals(me.store_id) ELSE << >>
        rd == ShouldReadCache(ok, remote)
        existing ==
            IF rd THEN remote \o CacheCandidates(
                             localStorage.goal_daily[me.store_id],
                             localStorage.goal_monthly[me.store_id])
            ELSE remote
        daily == FindDaily(existing, now)
        monthly == FindMonthly(existing, now)
        last == IF monthly = NoGoal /\ isFirstDayOfMonth(now)
                THEN FindLastMonthly(existing, now) ELSE NoGoal
    IN [me EXCEPT !.apiSuccess = ok, !.remoteLen = Len(remote),
                  !.cacheRead = rd,
                  !.existingGoals = existing, !.now = now,
                  !.dailyGoal = daily, !.monthlyGoal = monthly,
                  !.lastMonthly = last]

\* getGoals settles; fallback, selection, and the carry-over decision
GetGoalsReturn(l, ok) ==
    /\ Quiet
    /\ load[l].pc = "getGoals"
    /\ UNCHANGED <<modal, app, audit>>
    /\ UNCHANGED <<now, advances, budget, user, goalStore, upd, chk, notifyLog,
                   timers>>
    /\ LET rec == Selection(l, ok)
       IN IF rec.lastMonthly # NoGoal
          THEN /\ load' = [load EXCEPT ![l] =
                     [rec EXCEPT !.pc = "carry",
                        !.calls = <<CarryCall(rec.lastMonthly, now,
                                              rec.store_id)>>]]
               /\ UNCHANGED <<state, localStorage>>
               /\ UNCHANGED render
          ELSE /\ PublishAndContinue(l, rec)
               /\ Rerender(Published(rec), render.own \ Published(rec))

\* the backup whose localStorage.setItem throws (the storage is full or
\* disabled): the daily one, or the monthly one after the daily one, if any,
\* was written
SetItemThrows == {"daily", "monthly"}

SetItemCalled(rec, failAt) ==
    \/ failAt = "daily" /\ rec.dailyGoal # NoGoal
    \/ failAt = "monthly" /\ rec.monthlyGoal # NoGoal

\* variant: a finally block that leaves the loading flag alone
CatchErrorStillLoading(st, rec) ==
    IF rec.live THEN [st EXCEPT !.error = "Failed to load goals"] ELSE st

\* the outer catch and finally: dispatch SET_ERROR, then SET_LOADING false
CatchError(st, rec) ==
    IF rec.live
    THEN [st EXCEPT !.error = "Failed to load goals", !.loading = FALSE]
    ELSE st

\* a setItem of the backups throws: nothing is dispatched but the error
CatchAndFinish(l, rec, failAt) ==
    /\ SetItemCalled(rec, failAt)
    /\ localStorage' =
         IF failAt = "monthly"
         THEN SaveBackup(localStorage, [rec EXCEPT !.monthlyGoal = NoGoal])
         ELSE localStorage
    /\ state' = CatchError(state, rec)
    /\ load' = [load EXCEPT ![l] = [rec EXCEPT !.pc = "caught"]]

\* getGoals settles and a backup write throws
GetGoalsThrows(l, ok, failAt) ==
    /\ Quiet
    /\ load[l].pc = "getGoals"
    /\ LET rec == Selection(l, ok)
       IN /\ rec.lastMonthly = NoGoal
          /\ CatchAndFinish(l, rec, failAt)
    /\ UNCHANGED <<modal, app, audit>>
    /\ UNCHANGED <<now, advances, budget, user, goalStore, upd, chk, notifyLog,
                   timers>>
    /\ Rerender({}, render.own)

\* the carry-over createGoal settles
CarryReturn(l, ok) ==
    /\ Quiet
    /\ load[l].pc = "carry"
    /\ ok => Len(goalStore) < MaxStore
    /\ LET me == load[l]
           created == createdGoal(me.calls[Len(me.calls)])
           rec == IF ok THEN [me EXCEPT !.monthlyGoal = created] ELSE me
       IN /\ goalStore' = IF ok THEN Append(goalStore, created) ELSE goalStore
          /\ PublishAndContinue(l, rec)
    /\ UNCHANGED <<modal, app, audit>>
    /\ UNCHANGED <<now, advances, budget, user, upd, chk, notifyLog, timers>>
    /\ Rerender(Published(load[l]), render.own \ Published(load[l]))

\* the carry-over createGoal settles and a backup write throws
CarryThrows(l, ok, failAt) ==
    /\ Quiet
    /\ load[l].pc = "carry"
    /\ ok => Len(goalStore) < MaxStore
    /\ LET me == load[l]
           created == createdGoal(me.calls[Len(me.calls)])
           rec == IF ok THEN [me EXCEPT !.monthlyGoal = created] ELSE me
       IN /\ goalStore' = IF ok THEN Append(goalStore, created) ELSE goalStore
          /\ CatchAndFinish(l, rec, failAt)
    /\ UNCHANGED <<modal, app, audit>>
    /\ UNCHANGED <<now, advances, budget, user, upd, chk, notifyLog, timers>>
    /\ Rerender({}, render.own)

\* the auto-derivation createGoal settles; then finally
DeriveReturn(l, ok) ==
    /\ Quiet
    /\ load[l].pc = "derive"
    /\ ok => Len(goalStore) < MaxStore
    /\ LET me == load[l]
           created == createdGoal(me.calls[Len(me.calls)])
           rec == IF ok THEN [me EXCEPT !.dailyGoal = created] ELSE me
       IN /\ goalStore' = IF ok THEN Append(goalStore, created) ELSE goalStore
          /\ state' = FinishLoading(state, rec)
          /\ load' = [load EXCEPT ![l] = [rec EXCEPT !.pc = "done"]]
    /\ UNCHANGED <<modal, app, audit>>
    /\ UNCHANGED <<now, advances, budget, user, localStorage, upd, chk, notifyLog,
                   timers>>
    /\ Rerender({}, render.own)

(***************************************************************************)
(* resetDailyGoalsForNewDay.                                               *)
(***************************************************************************)
\* variant: a guard that accepts today's marker too
IsNewDayAnyMarker(ls, t) == ls.lastDailyCelebration # 0

\* the guard: a marker exists and is not today's
IsNewDay(ls, t) ==
    ls.lastDailyCelebration # 0 /\ ls.lastDailyCelebration # toDateString(t)

\* the zero record dispatched as SET_DAILY_PROGRESS
resetDailyProgress(goal) ==
    [goal |-> goal, current_amount |-> 0, pct_num |-> 0, pct_den |-> 1,
     is_achieved |-> FALSE, set |-> TRUE]

ResetState(st, ls, t) ==
    IF IsNewDay(ls, t)
    THEN [st EXCEPT !.lastCelebration = NoCelebration,
                    !.dailyProgress = IF st.dailyGoal # NoGoal
                                      THEN resetDailyProgress(st.dailyGoal)
                                      ELSE @]
    ELSE st

\* the dependencies of an effect that the guard dispatches
ResetFresh(st, ls, t) ==
    IF IsNewDay(ls, t) /\ st.dailyGoal # NoGoal THEN {"dailyProgress"} ELSE {}

ResetStorage(ls, t) ==
    IF IsNewDay(ls, t) THEN [ls EXCEPT !.lastDailyCelebration = 0] ELSE ls

\* the effect on [isAuthenticated, user, resetDailyGoalsForNewDay]: the guard
\* for an authenticated user
ResetEffect ==
    /\ First("reset")
    /\ state' = IF user # NoUser THEN ResetState(state, localStorage, now)
                ELSE state
    /\ localStorage' = IF user # NoUser THEN ResetStorage(localStorage, now)
                       ELSE localStorage
    /\ UNCHANGED <<modal, app, audit>>
    /\ UNCHANGED <<now, advances, budget, user, goalStore, load, upd, chk, notifyLog,
                   timers>>
    /\ AfterEffect("reset", IF user # NoUser
                            THEN ResetFresh(state, localStorage, now) ELSE {})

(***************************************************************************)
(* updateGoalProgress.                                                     *)
(***************************************************************************)
\* the totals the Sales Metrics Source may report
Amounts == {0, 100000}
\* a rejected getDashboardAnalytics
Failed == -1

\* an argument the caller left out
Undefined == -2
\* the aggregates a caller may pass as dashboardMetrics and monthlyMetrics
Metrics == {Undefined, 70}

\* the locals of one invocation: its caller, the goals of its closure, its
\* arguments, the dateRange of the queries it has issued, the totals of the
\* responses it has received, dailyAmount, and whether the rollover guard it
\* called at entry dispatched SET_DAILY_PROGRESS
IdleUpd ==
    [pc |-> "idle", by |-> "none", live |-> TRUE, dailyGoal |-> NoGoal,
     monthlyGoal |-> NoGoal,
     dashboardMetrics |-> Undefined, monthlyMetrics |-> Undefined,
     queries |-> << >>, responses |-> << >>, dailyAmount |-> 0,
     resetDaily |-> FALSE]

Smaller(a, b) == IF a <= b THEN a ELSE b

\* progress_percentage is the fraction pct_num / pct_den:
\* Math.min((amount / target) * 100, 999) when target > 0, else 0
GoalProgress(goal, amount) ==
    LET target == goal.target_amount IN
    [goal |-> goal, current_amount |-> amount,
     pct_num |-> IF target > 0 THEN Smaller(amount * 100, 999 * target) ELSE 0,
     pct_den |-> IF target > 0 THEN target ELSE 1,
     is_achieved |-> IF target > 0 THEN amount >= target ELSE FALSE,
     set |-> TRUE]

\* variant: today's total taken from the caller's aggregate when there is one
dailyAmountFromCaller(me, r) ==
    IF me.dashboardMetrics # Undefined THEN me.dashboardMetrics ELSE r

\* dailyMetrics.totalSales || 0 and monthlyMetricsData.totalSales || 0: the
\* totals are those of the two responses
dailyAmountOf(me, r) == r

monthlyAmountOf(me, r) == r

\* variant: the records are dispatched whatever the month's query returned
DispatchesAlways(r, me) == me.live

\* the dispatches at lines 442-443 are reached when the awaited query did not
\* reject, and take effect while the provider is mounted
Dispatches(r, me) == r # Failed /\ me.live

\* the guard at entry
CanUpdate(u, st) ==
    u # NoUser /\ st.dailyGoal # NoGoal /\ st.monthlyGoal # NoGoal

\* updateGoalProgress called by u, the guard passing: the rollover check and
\* the request for today's total.  The goals effect calls as an effect of
\* its commit; the timer calls only while its interval is set
UpdateStart(u, dashboardMetrics, monthlyMetrics) ==
    /\ IF u = "effect" THEN First("goals") ELSE Quiet
    /\ Called(u)
    /\ u = "timer" => timers > 0
    /\ CanUpdate(user, state)
    /\ state' = ResetState(state, localStorage, now)
    /\ localStorage' = ResetStorage(localStorage, now)
    /\ upd' = Put(upd, Slot(FreeUpdates),
          [IdleUpd EXCEPT !.pc = "daily", !.by = u,
                          !.dailyGoal = state.dailyGoal,
                          !.monthlyGoal = state.monthlyGoal,
                          !.dashboardMetrics = dashboardMetrics,
                          !.monthlyMetrics = monthlyMetrics,
                          !.queries = <<"today">>,
                          !.resetDaily = IsNewDay(localStorage, now)])
    /\ UNCHANGED <<modal, app, audit>>
    /\ UNCHANGED <<now, advances, user, goalStore, load, chk, notifyLog,
                   timers>>
    /\ IF u = "effect"
       THEN AfterEffect("goals", ResetFresh(state, localStorage, now))
       ELSE Rerender(ResetFresh(state, localStorage, now), render.own)

\* updateGoalProgress called by the timer or a consumer, the guard failing:
\* the early return
UpdateSkip(u) ==
    /\ Quiet
    /\ Spend
    /\ u = "timer" => timers > 0
    /\ ~CanUpdate(user, state)
    /\ upd' = Put(upd, Slot(FreeUpdates),
          [IdleUpd EXCEPT !.pc = "skipped", !.by = u])
    /\ UNCHANGED <<modal, app, audit>>
    /\ UNCHANGED <<now, advances, user, goalStore, localStorage, state, load,
                   chk, notifyLog, timers>>
    /\ UNCHANGED render

\* the effect on [isAuthenticated, user, state.dailyGoal, state.monthlyGoal]:
\* updateGoalProgress for an authenticated user when both goals are set
GoalsEffect ==
    IF CanUpdate(user, state)
    THEN UpdateStart("effect", Undefined, Undefined)
    ELSE /\ First("goals")
         /\ UNCHANGED <<modal, app, audit>>
         /\ UNCHANGED <<now, advances, budget, user, goalStore, localStorage, state,
                        load, upd, chk, notifyLog, timers>>
         /\ AfterEffect("goals", {})

\* the request for today's total settles; the month's total is requested
UpdateDailyReturn(u, r) ==
    /\ Quiet
    /\ upd[u].pc = "daily"
    /\ upd' = [upd EXCEPT ![u] =
          IF r = Failed THEN IdleUpd
          ELSE [@ EXCEPT !.pc = "monthly",
                         !.dailyAmount = dailyAmountOf(upd[u], r),
                         !.responses = Append(@, r),
                         !.queries = Append(@, "this_month")]]
    /\ UNCHANGED <<modal, app, audit>>
    /\ UNCHANGED <<now, advances, budget, user, goalStore, localStorage, state, load,
                   chk, notifyLog, timers>>
    /\ UNCHANGED render

\* the request for the month's total settles; both records are dispatched
UpdateMonthlyReturn(u, r) ==
    /\ Quiet
    /\ upd[u].pc = "monthly"
    /\ LET me == upd[u] IN
       /\ state' =
            IF Dispatches(r, me)
            THEN [state EXCEPT
                    !.dailyProgress = GoalProgress(me.dailyGoal, me.dailyAmount),
                    !.monthlyProgress =
                        GoalProgress(me.monthlyGoal, monthlyAmountOf(me, r))]
            ELSE state
       /\ upd' = [upd EXCEPT ![u] = IdleUpd]
    /\ UNCHANGED <<modal, app, audit>>
    /\ UNCHANGED <<now, advances, budget, user, goalStore, localStorage, load,
                   chk, notifyLog, timers>>
    /\ Rerender(IF Dispatches(r, upd[u])
                THEN {"dailyProgress", "monthlyProgress"} ELSE {}, render.own)

(***************************************************************************)
(* checkGoalAchievements.                                                  *)
(***************************************************************************)
\* the locals of one invocation that are still read after its first await:
\* its caller, the clock, the monthly goal and progress of its closure, and
\* the monthly marker it read at entry
IdleChk ==
    [pc |-> "idle", by |-> "none", live |-> TRUE, now |-> 0,
     monthlyGoal |-> NoGoal,
     monthlyProgress |-> NoProgress, lastMonthlyCelebration |-> 0]

Celebration(track, goal, progress, t) ==
    [goalType |-> track, goalAmount |-> goal.target_amount,
     actualAmount |-> progress.current_amount, achieved_at |-> t]

\* variant: a daily branch that does not look at the marker
DailyFiresWithoutMarker(dailyProgress, lastDailyCelebration, t) ==
    dailyProgress.is_achieved

\* the condition of the daily branch
DailyFires(dailyProgress, lastDailyCelebration, t) ==
    /\ dailyProgress.is_achieved
    /\ lastDailyCelebration # toDateString(t)

\* the condition of the monthly branch
MonthlyFires(monthlyProgress, lastMonthlyCelebration, t) ==
    /\ monthlyProgress.is_achieved
    /\ lastMonthlyCelebration # MonthKey(t)

\* variant: a reducer case that keeps a celebration already held
SetLastCelebrationKeepingFirst(st, rec, c) ==
    IF rec.live /\ st.lastCelebration = NoCelebration
    THEN [st EXCEPT !.lastCelebration = c] ELSE st

\* dispatch SET_LAST_CELEBRATION
SetLastCelebration(st, rec, c) ==
    IF rec.live THEN [st EXCEPT !.lastCelebration = c] ELSE st

\* one more call of the notifier for a track and period key
Notified(log, track, key) ==
    log (+) SetToBag({[track |-> track, key |-> key]})

\* an invocation whose promise was rejected
Threw == [IdleChk EXCEPT !.pc = "threw"]

\* the monthly branch of invocation c, entered from state st and Local Cache
\* ls; reading target_amount of a null monthlyGoal throws
MonthlyBranch(c, rec, st, ls) ==
    IF ~MonthlyFires(rec.monthlyProgress, rec.lastMonthlyCelebration, rec.now)
    THEN /\ state' = st
         /\ localStorage' = ls
         /\ notifyLog' = notifyLog
         /\ chk' = Put(chk, c, IdleChk)
    ELSE IF rec.monthlyGoal = NoGoal
    THEN /\ state' = st
         /\ localStorage' = ls
         /\ notifyLog' = notifyLog
         /\ chk' = Put(chk, c, Threw)
    ELSE /\ localStorage' =
               [ls EXCEPT !.lastMonthlyCelebration = MonthKey(rec.now)]
         /\ state' = SetLastCelebration(st, rec,
               Celebration("monthly", rec.monthlyGoal,
                           rec.monthlyProgress, rec.now))
         /\ notifyLog' = Notified(notifyLog, "monthly", MonthKey(rec.now))
         /\ chk' = Put(chk, c,
               [IdleChk EXCEPT !.pc = "notifyMonthly", !.by = rec.by,
                               !.live = rec.live])

\* state.dailyProgress as the function called reads it: that of the render
\* whose effect calls it, and the reducer's for a consumer's call
ClosureDailyProgress(c) ==
    IF c = "effect" THEN render.dailyProgress ELSE state.dailyProgress

\* checkGoalAchievements called by c, both progress records set: the markers,
\* the new-day clear and the daily branch; reading target_amount of a null
\* dailyGoal throws.  The progress effect calls as an effect of its commit
CheckStart(c) ==
    /\ IF c = "effect" THEN First("achievement") ELSE Quiet
    /\ Called(c)
    /\ ClosureDailyProgress(c).set
    /\ state.monthlyProgress.set
    /\ LET dailyProgress == ClosureDailyProgress(c)
           i == Slot(FreeChecks)
           rec == [IdleChk EXCEPT
                     !.by = c,
                     !.now = now,
                     !.monthlyGoal = state.monthlyGoal,
                     !.monthlyProgress = state.monthlyProgress,
                     !.lastMonthlyCelebration = localStorage.lastMonthlyCelebration]
           cleared == IF IsNewDay(localStorage, now)
                      THEN [state EXCEPT !.lastCelebration = NoCelebration]
                      ELSE state
       IN IF DailyFires(dailyProgress,
                        localStorage.lastDailyCelebration, now)
          THEN IF state.dailyGoal = NoGoal
               THEN /\ state' = cleared
                    /\ chk' = Put(chk, i, Threw)
                    /\ UNCHANGED <<localStorage, notifyLog>>
               ELSE /\ localStorage' = [localStorage EXCEPT
                          !.lastDailyCelebration = toDateString(now)]
                    /\ state' = [cleared EXCEPT !.lastCelebration =
                          Celebration("daily", state.dailyGoal,
                                      dailyProgress, now)]
                    /\ notifyLog' = Notified(notifyLog, "daily", toDateString(now))
                    /\ chk' = Put(chk, i, [rec EXCEPT !.pc = "notifyDaily"])
          ELSE MonthlyBranch(i, rec, cleared, localStorage)
    /\ UNCHANGED <<modal, app, audit>>
    /\ UNCHANGED <<now, advances, user, goalStore, load, upd, timers>>
    /\ IF c = "effect" THEN AfterEffect("achievement", {})
       ELSE Rerender({}, render.own)

\* the effect on [state.dailyProgress, state.monthlyProgress,
\* checkGoalAchievements]: checkGoalAchievements when both records are set
AchievementEffect ==
    IF render.dailyProgress.set /\ state.monthlyProgress.set
    THEN CheckStart("effect")
    ELSE /\ First("achievement")
         /\ UNCHANGED <<modal, app, audit>>
         /\ UNCHANGED <<now, advances, budget, user, goalStore, localStorage, state,
                        load, upd, chk, notifyLog, timers>>
         /\ AfterEffect("achievement", {})

\* the daily notification settles; a rejection leaves the function
NotifyDailyReturn(c, ok) ==
    /\ Quiet
    /\ chk[c].pc = "notifyDaily"
    /\ IF ok
       THEN MonthlyBranch(c, chk[c], state, localStorage)
       ELSE /\ chk' = [chk EXCEPT ![c] = Threw]
            /\ UNCHANGED <<state, localStorage, notifyLog>>
    /\ UNCHANGED <<modal, app, audit>>
    /\ UNCHANGED <<now, advances, budget, user, goalStore, load, upd, timers>>
    /\ Rerender({}, render.own)

\* the monthly notification settles
NotifyMonthlyReturn(c, ok) ==
    /\ Quiet
    /\ chk[c].pc = "notifyMonthly"
    /\ chk' = [chk EXCEPT ![c] = IF ok THEN IdleChk ELSE Threw]
    /\ UNCHANGED <<modal, app, audit>>
    /\ UNCHANGED <<now, advances, budget, user, goalStore, localStorage, state, load,
                   upd, notifyLog, timers>>
    /\ UNCHANGED render

(***************************************************************************)
(* setDailyGoal and setMonthlyGoal.  A consumer holds one object for each  *)
(* goal it passes.                                                         *)
(***************************************************************************)
\* variant: a reducer case that also drops the progress record of the track
SET_DAILY_GOAL_DroppingProgress(st, payload) ==
    [st EXCEPT !.dailyGoal = payload, !.dailyProgress = NoProgress]

\* goalReducer, case SET_DAILY_GOAL
SET_DAILY_GOAL(st, payload) == [st EXCEPT !.dailyGoal = payload]

\* goalReducer, case SET_MONTHLY_GOAL
SET_MONTHLY_GOAL(st, payload) == [st EXCEPT !.monthlyGoal = payload]

\* the goal in field f of the state is equal to goal: the caller may hold
\* that very object, which the context value gives to every consumer,
\* whether loadGoals or a consumer dispatched it
InState(f, goal) == state[f] = goal

\* dispatch SET_DAILY_GOAL with the caller's goal: a new dependency, unless
\* the caller passes the very object that is in state
SetDailyGoal(goal) ==
    /\ Quiet
    /\ Spend
    /\ state' = SET_DAILY_GOAL(state, goal)
    /\ UNCHANGED <<modal, app, audit>>
    /\ UNCHANGED <<now, advances, user, goalStore, localStorage, load,
                   upd, chk, notifyLog, timers>>
    /\ \E same \in {InState("dailyGoal", goal), FALSE} :
         Rerender(IF same THEN {} ELSE {"dailyGoal"},
                  render.own \cup {"dailyGoal"})

\* dispatch SET_MONTHLY_GOAL with the caller's goal
SetMonthlyGoal(goal) ==
    /\ Quiet
    /\ Spend
    /\ state' = SET_MONTHLY_GOAL(state, goal)
    /\ UNCHANGED <<modal, app, audit>>
    /\ UNCHANGED <<now, advances, user, goalStore, localStorage, load,
                   upd, chk, notifyLog, timers>>
    /\ \E same \in {InState("monthlyGoal", goal), FALSE} :
         Rerender(IF same THEN {} ELSE {"monthlyGoal"},
                  render.own \cup {"monthlyGoal"})

\* clearLastCelebration: dispatch CLEAR_LAST_CELEBRATION
ClearLastCelebration ==
    /\ Quiet
    /\ Spend
    /\ state' = [state EXCEPT !.lastCelebration = NoCelebration]
    /\ UNCHANGED <<modal, app, audit>>
    /\ UNCHANGED <<now, advances, user, goalStore, localStorage, load,
                   upd, chk, notifyLog, timers>>
    /\ Rerender({}, render.own)

(***************************************************************************)
(* The environment.                                                        *)
(***************************************************************************)
\* local midnight passes
AdvanceDay ==
    /\ Quiet
    /\ advances < MaxAdvance
    /\ now' = NextDay(now)
    /\ advances' = advances + 1
    /\ UNCHANGED <<modal, app, audit>>
    /\ UNCHANGED <<budget, user, goalStore, localStorage, state, load, upd, chk,
                   notifyLog, timers>>
    /\ UNCHANGED render

\* AppProvider renders with a new user object: its effect is to run
AppRerender == IF app.mounted THEN [app EXCEPT !.pending = TRUE] ELSE app

\* useAuth returns a user: isAuthenticated and user change, and the providers
\* that are mounted render
Login(u) ==
    /\ Quiet
    /\ Spend
    /\ user = NoUser
    /\ user' = u
    /\ app' = AppRerender
    /\ UNCHANGED <<modal, audit>>
    /\ UNCHANGED <<now, advances, goalStore, localStorage, state, load, upd,
                   chk, notifyLog, timers>>
    /\ Rerender({"user"}, render.own)

Logout ==
    /\ Quiet
    /\ Spend
    /\ user # NoUser
    /\ user' = NoUser
    /\ app' = AppRerender
    /\ UNCHANGED <<modal, audit>>
    /\ UNCHANGED <<now, advances, goalStore, localStorage, state, load, upd,
                   chk, notifyLog, timers>>
    /\ Rerender({"user"}, render.own)

\* a provider that was torn down ignores the dispatches of its invocations
Orphaned(pool, free) ==
    [i \in DOMAIN pool |->
        IF i \in free THEN pool[i] ELSE [pool[i] EXCEPT !.live = FALSE]]

\* the provider is unmounted and mounted again: the cleanup of the timer
\* effect runs, useReducer starts from initialState, invocations in flight
\* keep running against the old provider
Remount ==
    /\ Quiet
    /\ Spend
    /\ render.mounted
    /\ state' = initialState
    /\ load' = Orphaned(load, FreeLoads)
    /\ upd' = Orphaned(upd, FreeUpdates)
    /\ chk' = Orphaned(chk, FreeChecks)
    /\ timers' = ClearTimer(timers, render.interval)
    /\ UNCHANGED <<modal, app, audit>>
    /\ UNCHANGED <<now, advances, user, goalStore, localStorage, notifyLog>>
    /\ render' = MountRender

\* the page is reloaded: every invocation in flight and every interval is
\* gone with the page, the provider starts from initialState, the Local
\* Cache stays
Reload ==
    /\ Quiet
    /\ Spend
    /\ render.mounted
    /\ state' = initialState
    /\ load' = [l \in DOMAIN load |-> IdleLoad]
    /\ upd' = [u \in DOMAIN upd |-> IdleUpd]
    /\ chk' = [c \in DOMAIN chk |-> IdleChk]
    /\ timers' = 0
    /\ modal' = ClosedModal
    /\ app' = IF app.mounted THEN MountApp ELSE IdleApp
    /\ audit' = IdleAudit
    /\ UNCHANGED <<now, advances, user, goalStore, localStorage, notifyLog>>
    /\ render' = MountRender

(***************************************************************************)
(* EnhancedPaymentModal.  Amounts are JavaScript numbers; the totals and   *)
(* the amounts entered are drawn from integers that 2 and 3 divide, so     *)
(* that every amount the modal computes is an integer too.                 *)
(***************************************************************************)
\* the most payment methods addPaymentMethod lets in
MaxPaymentMethods == 3
\* the onProcessPayment calls in flight at a time
MaxCalls == 1
\* the largest amount, of either sign, a payment method is followed to
MaxAmount == 9

PaymentTypes == {"cash", "card", "transfer"}
PayTotals == {0, 6}
PayAmounts == {0, 3, 9}

RECURSIVE getTotalPaid(_)
getTotalPaid(paymentMethods) ==
    IF paymentMethods = << >> THEN 0
    ELSE Head(paymentMethods).amount + getTotalPaid(Tail(paymentMethods))

\* variant: a check of the total alone
isPaymentCompleteByTotal(paymentMethods, totalAmount) ==
    getTotalPaid(paymentMethods) >= totalAmount

isPaymentComplete(paymentMethods, totalAmount) ==
    /\ getTotalPaid(paymentMethods) >= totalAmount
    /\ Len(paymentMethods) > 0

\* the remainingAmount state, as the effect on paymentMethods leaves it
remainingAmount(m) == m.totalAmount - getTotalPaid(m.paymentMethods)

\* the list without its element at index
Without(paymentMethods, index) ==
    SubSeq(paymentMethods, 1, index - 1)
        \o SubSeq(paymentMethods, index + 1, Len(paymentMethods))

\* variant: an edit of the amount that is never adjusted
newMethodsUnadjusted(paymentMethods, index, field, value, totalAmount) ==
    IF field = "amount"
    THEN [paymentMethods EXCEPT ![index].amount = value]
    ELSE [paymentMethods EXCEPT ![index].type = value]

\* newMethods of updatePaymentMethod: the edit, and the adjustment of the
\* last of several methods to what the others leave
newMethods(paymentMethods, index, field, value, totalAmount) ==
    IF field = "amount"
    THEN LET remaining ==
                 totalAmount - getTotalPaid(Without(paymentMethods, index))
         IN IF /\ index = Len(paymentMethods)
               /\ Len(paymentMethods) > 1
               /\ value > remaining
            THEN [paymentMethods EXCEPT ![index].amount = remaining]
            ELSE [paymentMethods EXCEPT ![index].amount = value]
    ELSE [paymentMethods EXCEPT ![index].type = value]

setPaymentMethods(methods) ==
    /\ \A i \in 1..Len(methods) :
         methods[i].amount \in (0 - MaxAmount)..MaxAmount
    /\ modal' = [modal EXCEPT !.paymentMethods = methods]
    /\ UNCHANGED <<engineVars, app, audit>>

addPaymentMethod ==
    /\ Len(modal.paymentMethods) < MaxPaymentMethods
    /\ LET remaining == modal.totalAmount - getTotalPaid(modal.paymentMethods)
           newAmount == IF Len(modal.paymentMethods) = 0
                        THEN modal.totalAmount ELSE remaining
       IN setPaymentMethods(Append(modal.paymentMethods,
                                   [type |-> "cash", amount |-> newAmount]))

removePaymentMethod(index) ==
    /\ index \in 1..Len(modal.paymentMethods)
    /\ setPaymentMethods(Without(modal.paymentMethods, index))

updatePaymentMethod(index, field, value) ==
    /\ index \in 1..Len(modal.paymentMethods)
    /\ setPaymentMethods(newMethods(modal.paymentMethods, index, field, value,
                                    modal.totalAmount))

\* the Fill button of the last method
FillRemaining ==
    /\ remainingAmount(modal) > 0
    /\ updatePaymentMethod(Len(modal.paymentMethods), "amount",
                           remainingAmount(modal))

\* the Split Evenly button
SplitEvenly ==
    /\ Len(modal.paymentMethods) > 1
    /\ LET evenAmount == modal.totalAmount \div Len(modal.paymentMethods)
       IN setPaymentMethods([i \in 1..Len(modal.paymentMethods) |->
               [modal.paymentMethods[i] EXCEPT !.amount = evenAmount]])

\* handleProcessPayment up to its await: the guard and the call
handleProcessPayment ==
    /\ isPaymentComplete(modal.paymentMethods, modal.totalAmount)
    /\ Len(modal.calls) < MaxCalls
    /\ modal' = [modal EXCEPT !.calls = Append(@, modal.paymentMethods)]
    /\ UNCHANGED <<engineVars, app, audit>>

\* onProcessPayment settles: the form is reset, or the rejection is dropped
ProcessPaymentReturn(ok) ==
    /\ modal.calls # << >>
    /\ modal' = [modal EXCEPT !.calls = Tail(@),
                              !.paymentMethods = IF ok THEN << >> ELSE @]
    /\ UNCHANGED <<engineVars, app, audit>>

\* Cancel, or the modal's close button
resetForm ==
    /\ modal.paymentMethods # << >>
    /\ setPaymentMethods(<< >>)

(***************************************************************************)
(* Reconciliation: the loadGoals invocations of a session that is signed   *)
(* in and out and remounted, over every start day, every initial Goal     *)
(* Store and every initial Local Cache.  The Sales Metrics Source is down. *)
(***************************************************************************)
EngineIdle ==
    /\ advances = 0
    /\ user = NoUser
    /\ state = initialState
    /\ load = [l \in 1..MaxLoads |-> IdleLoad]
    /\ upd = [u \in 1..MaxUpdates |-> IdleUpd]
    /\ chk = [c \in 1..MaxChecks |-> IdleChk]
    /\ notifyLog = EmptyBag
    /\ timers = 0

\* GoalProvider after its first render, the other components not mounted
InitEngine ==
    /\ EngineIdle
    /\ render = MountRender
    /\ modal = ClosedModal
    /\ app = IdleApp
    /\ audit = IdleAudit

InitStorage(c) ==
    [goal_daily |-> [s \in Stores |-> IF s = "S1" THEN c[1] ELSE NoGoal],
     goal_monthly |-> [s \in Stores |-> IF s = "S1" THEN c[2] ELSE NoGoal],
     lastDailyCelebration |-> 0,
     lastMonthlyCelebration |-> 0]

Init ==
    /\ InitEngine
    /\ budget = ReconcileEvents
    /\ \E d0 \in StartDates :
         /\ now = d0
         /\ goalStore \in InitStores(d0)
         /\ \E c \in InitCaches(d0) : localStorage = InitStorage(c)

\* the effects of the last commit of GoalProvider
Flush ==
    \/ GoalsEffect
    \/ LoadEffect
    \/ TimerEffect
    \/ ResetEffect
    \/ AchievementEffect

Next ==
    \/ Flush
    \/ LoadStart("manual")
    \/ \E l \in DOMAIN load, ok \in BOOLEAN : GetGoalsReturn(l, ok)
    \/ \E l \in DOMAIN load, ok \in BOOLEAN : CarryReturn(l, ok)
    \/ \E l \in DOMAIN load, ok \in BOOLEAN : DeriveReturn(l, ok)
    \/ \E u \in DOMAIN upd : UpdateDailyReturn(u, Failed)
    \/ AdvanceDay
    \/ Login(StoreUser)
    \/ Logout
    \/ Remount

Spec == Init /\ [][Next]_vars

(***************************************************************************)
(* Reconciliation on every day of a common year and of a leap year, with   *)
(* one monthly goal in the Goal Store: last month's, this month's, or one  *)
(* without a period.                                                       *)
(***************************************************************************)
AllDates ==
    { MkDate(y, m, d) : y \in {2023, 2024}, m \in 0..11, d \in 1..31 }
ValidDates ==
    { t \in AllDates : getDate(t) <= DaysInMonth(getFullYear(t), getMonth(t)) }

DayStores(d0) == { <<Pool(d0)[1]>>, <<Pool(d0)[2]>>, <<Pool(d0)[3]>> }

InitDays ==
    /\ InitEngine
    /\ budget = MaxEvents
    /\ \E d0 \in ValidDates :
         /\ now = d0
         /\ goalStore \in DayStores(d0)
         /\ localStorage = InitStorage(<<NoGoal, NoGoal>>)

NextDays ==
    \/ Login(StoreUser)
    \/ Flush
    \/ \E l \in DOMAIN load, ok \in BOOLEAN : GetGoalsReturn(l, ok)
    \/ \E l \in DOMAIN load, ok \in BOOLEAN : CarryReturn(l, ok)
    \/ \E l \in DOMAIN load, ok \in BOOLEAN : DeriveReturn(l, ok)

SpecDays == InitDays /\ [][NextDays]_vars

(***************************************************************************)
(* Progress and achievements: reconciliation by the mount effect and by a  *)
(* consumer, progress updates and overlapping achievement checks across a  *)
(* midnight and a reload of the page.                                      *)
(***************************************************************************)
AchStartDates == { MkDate(2024, 5, 15) }

\* a daily goal for the first day only or one without an end, and a monthly
\* goal for the month
AchStores(d0) ==
    { <<Pool(d0)[4], Pool(d0)[2]>>, <<Pool(d0)[6], Pool(d0)[2]>> }

InitAch ==
    /\ InitEngine
    /\ budget = MaxEvents
    /\ \E d0 \in AchStartDates :
         /\ now = d0
         /\ goalStore \in AchStores(d0)
         /\ localStorage = InitStorage(<<NoGoal, NoGoal>>)

NextAch ==
    \/ Flush
    \/ LoadStart("manual")
    \/ \E l \in DOMAIN load : GetGoalsReturn(l, TRUE)
    \/ \E l \in DOMAIN load, ok \in BOOLEAN : DeriveReturn(l, ok)
    \/ \E u \in DOMAIN upd, r \in Amounts : UpdateDailyReturn(u, r)
    \/ \E u \in DOMAIN upd, r \in Amounts : UpdateMonthlyReturn(u, r)
    \/ CheckStart("manual")
    \/ \E c \in DOMAIN chk, ok \in BOOLEAN : NotifyDailyReturn(c, ok)
    \/ \E c \in DOMAIN chk, ok \in BOOLEAN : NotifyMonthlyReturn(c, ok)
    \/ AdvanceDay
    \/ Login(StoreUser)
    \/ Reload

SpecAch == InitAch /\ [][NextAch]_vars

(***************************************************************************)
(* Notifications: a session whose loadGoals succeeds, with the progress    *)
(* updates of the goals effect and of a consumer, both callers of          *)
(* checkGoalAchievements, notifications that succeed or fail, the rollover *)
(* guard and midnight.                                                     *)
(***************************************************************************)
NextNotify ==
    \/ Login(StoreUser)
    \/ Flush
    \/ \E l \in DOMAIN load : GetGoalsReturn(l, TRUE)
    \/ UpdateStart("manual", Undefined, Undefined)
    \/ \E u \in DOMAIN upd, r \in Amounts : UpdateDailyReturn(u, r)
    \/ \E u \in DOMAIN upd, r \in Amounts : UpdateMonthlyReturn(u, r)
    \/ CheckStart("manual")
    \/ \E c \in DOMAIN chk, ok \in BOOLEAN : NotifyDailyReturn(c, ok)
    \/ \E c \in DOMAIN chk, ok \in BOOLEAN : NotifyMonthlyReturn(c, ok)
    \/ AdvanceDay

SpecNotify == InitAch /\ [][NextNotify]_vars

(***************************************************************************)
(* Achievements with a monthly goal whose target is 0: the daily goal      *)
(* derived from it has target 0 too.                                       *)
(***************************************************************************)
ZeroStores(d0) ==
    { <<Pool(d0)[4], Pool(d0)[3]>>, <<Pool(d0)[4], Pool(d0)[2]>> }

InitZero ==
    /\ InitEngine
    /\ budget = MaxEvents
    /\ \E d0 \in AchStartDates :
         /\ now = d0
         /\ goalStore \in ZeroStores(d0)
         /\ localStorage = InitStorage(<<NoGoal, NoGoal>>)

SpecZero == InitZero /\ [][NextAch]_vars

(***************************************************************************)
(* Progress: updateGoalProgress from the effect and from a consumer that   *)
(* passes aggregates, over totals below, at and above the targets.         *)
(***************************************************************************)
\* the totals the Sales Metrics Source may report
ProgAmounts == {-50, 0, 50, 100, 2000, 100000}

\* a daily goal of 100 or 50, and a monthly goal of 100000 or 0
ProgStores(d0) ==
    { <<Pool(d0)[4], Pool(d0)[2]>>, <<Pool(d0)[4], Pool(d0)[3]>>,
      <<Pool(d0)[6], Pool(d0)[2]>> }

InitProg ==
    /\ InitEngine
    /\ budget = MaxEvents
    /\ \E d0 \in AchStartDates :
         /\ now = d0
         /\ goalStore \in ProgStores(d0)
         /\ localStorage = InitStorage(<<NoGoal, NoGoal>>)

NextProg ==
    \/ Login(StoreUser)
    \/ Flush
    \/ \E l \in DOMAIN load, ok \in BOOLEAN : GetGoalsReturn(l, ok)
    \/ \E dm \in Metrics, mm \in Metrics : UpdateStart("manual", dm, mm)
    \/ \E u \in DOMAIN upd, r \in ProgAmounts \cup {Failed} :
         UpdateDailyReturn(u, r)
    \/ \E u \in DOMAIN upd, r \in ProgAmounts \cup {Failed} :
         UpdateMonthlyReturn(u, r)
    \/ \E c \in DOMAIN chk : NotifyDailyReturn(c, TRUE)
    \/ \E c \in DOMAIN chk : NotifyMonthlyReturn(c, TRUE)

SpecProg == InitProg /\ [][NextProg]_vars

(***************************************************************************)
(* Sessions: sign in and out, overlapping loadGoals invocations,           *)
(* updateGoalProgress called by a consumer, and setDailyGoal.              *)
(***************************************************************************)
\* a monthly goal alone, so that the daily goal is derived unless the Local
\* Cache is read and holds one
SessionStores(d0) == { <<Pool(d0)[2]>> }
SessionCaches(d0) == { <<NoGoal, NoGoal>>, <<Pool(d0)[4], Pool(d0)[2]>> }
\* the total the Sales Metrics Source reports
SessionAmounts == {100000}

InitSession ==
    /\ InitEngine
    /\ budget = MaxEvents
    /\ \E d0 \in AchStartDates :
         /\ now = d0
         /\ goalStore \in SessionStores(d0)
         /\ \E c \in SessionCaches(d0) : localStorage = InitStorage(c)

NextSession ==
    \/ \E u \in Users : Login(u)
    \/ Logout
    \/ Flush
    \/ LoadStart("manual")
    \/ LoadSkip("manual")
    \/ \E l \in DOMAIN load, ok \in BOOLEAN : GetGoalsReturn(l, ok)
    \/ \E l \in DOMAIN load, ok \in BOOLEAN : DeriveReturn(l, ok)
    \/ UpdateStart("manual", Undefined, Undefined)
    \/ UpdateSkip("manual")
    \/ \E u \in DOMAIN upd, r \in SessionAmounts \cup {Failed} :
         UpdateDailyReturn(u, r)
    \/ \E u \in DOMAIN upd, r \in SessionAmounts \cup {Failed} :
         UpdateMonthlyReturn(u, r)
    \/ SetDailyGoal(Pool(now)[6])

SpecSession == InitSession /\ [][NextSession]_vars

(***************************************************************************)
(* Overrides: setDailyGoal and setMonthlyGoal called by a consumer before, *)
(* during and after a loadGoals, with progress updates in between.         *)
(***************************************************************************)
\* the goals a consumer passes: ones the Goal Store does not list, either of
\* them to either setter, whatever its goal_type; a consumer also passes a
\* setter the goal it reads from the context value
OverrideGoals(d0) == { Pool(d0)[6], Pool(d0)[7] }
OverrideAmounts == {100}

NextOverride ==
    \/ Login(StoreUser)
    \/ Logout
    \/ Flush
    \/ \E l \in DOMAIN load, ok \in BOOLEAN : GetGoalsReturn(l, ok)
    \/ \E l \in DOMAIN load, ok \in BOOLEAN : DeriveReturn(l, ok)
    \/ \E g \in OverrideGoals(now) \cup {state.dailyGoal} : SetDailyGoal(g)
    \/ \E g \in OverrideGoals(now) \cup {state.monthlyGoal} : SetMonthlyGoal(g)
    \/ \E u \in DOMAIN upd, r \in OverrideAmounts : UpdateDailyReturn(u, r)
    \/ \E u \in DOMAIN upd, r \in OverrideAmounts : UpdateMonthlyReturn(u, r)

SpecOverride == InitSession /\ [][NextOverride]_vars

(***************************************************************************)
(* Tracks: a store with a monthly goal, with or without a daily goal, and  *)
(* sales that reach both targets.  The effects of a commit run, and every  *)
(* remote call settles.                                                    *)
(***************************************************************************)
TrackStores(d0) ==
    { <<Pool(d0)[2]>>, <<Pool(d0)[4], Pool(d0)[2]>>, <<Pool(d0)[6], Pool(d0)[2]>> }
TrackAmounts == {100000}

InitTracks ==
    /\ InitEngine
    /\ budget = MaxEvents
    /\ \E d0 \in AchStartDates :
         /\ now = d0
         /\ goalStore \in TrackStores(d0)
         /\ localStorage = InitStorage(<<NoGoal, NoGoal>>)

LoadSettles ==
    \/ \E l \in DOMAIN load : GetGoalsReturn(l, TRUE)
    \/ \E l \in DOMAIN load, ok \in BOOLEAN : DeriveReturn(l, ok)
UpdateRuns ==
    \/ \E u \in DOMAIN upd, r \in TrackAmounts : UpdateDailyReturn(u, r)
    \/ \E u \in DOMAIN upd, r \in TrackAmounts : UpdateMonthlyReturn(u, r)
CheckRuns ==
    \/ \E c \in DOMAIN chk, ok \in BOOLEAN : NotifyDailyReturn(c, ok)
    \/ \E c \in DOMAIN chk, ok \in BOOLEAN : NotifyMonthlyReturn(c, ok)

NextTracks ==
    \/ Login(StoreUser)
    \/ Logout
    \/ Flush
    \/ LoadSettles
    \/ UpdateRuns
    \/ CheckRuns

SpecTracks ==
    /\ InitTracks
    /\ [][NextTracks]_vars
    /\ WF_vars(Flush)
    /\ WF_vars(LoadSettles)
    /\ WF_vars(UpdateRuns)
    /\ WF_vars(CheckRuns)

(***************************************************************************)
(* The periodic timer: after a loadGoals, updateGoalProgress is called by  *)
(* the goals effect and by the 30 minute interval, before and after a      *)
(* midnight; the progress effect calls checkGoalAchievements.              *)
(***************************************************************************)
NextTimer ==
    \/ Login(StoreUser)
    \/ Logout
    \/ Flush
    \/ \E l \in DOMAIN load : GetGoalsReturn(l, TRUE)
    \/ UpdateStart("timer", Undefined, Undefined)
    \/ UpdateSkip("timer")
    \/ \E u \in DOMAIN upd, r \in Amounts \cup {Failed} :
         UpdateDailyReturn(u, r)
    \/ \E u \in DOMAIN upd, r \in Amounts \cup {Failed} :
         UpdateMonthlyReturn(u, r)
    \/ \E c \in DOMAIN chk, ok \in BOOLEAN : NotifyDailyReturn(c, ok)
    \/ \E c \in DOMAIN chk, ok \in BOOLEAN : NotifyMonthlyReturn(c, ok)
    \/ AdvanceDay

SpecTimer == InitAch /\ [][NextTimer]_vars

(***************************************************************************)
(* Errors: loadGoals with a Goal Store that may fail, a Local Cache whose  *)
(* writes may throw, and the operations a consumer may call afterwards.    *)
(***************************************************************************)
ErrorStores(d0) ==
    { <<Pool(d0)[2]>>, <<Pool(d0)[4], Pool(d0)[2]>>, <<Pool(d0)[4]>> }
ErrorAmounts == {100}

InitError ==
    /\ InitEngine
    /\ budget = MaxEvents
    /\ \E d0 \in AchStartDates :
         /\ now = d0
         /\ goalStore \in ErrorStores(d0)
         /\ localStorage = InitStorage(<<NoGoal, NoGoal>>)

LoadEnds ==
    \/ \E l \in DOMAIN load, ok \in BOOLEAN : GetGoalsReturn(l, ok)
    \/ \E l \in DOMAIN load, ok \in BOOLEAN, failAt \in SetItemThrows :
         GetGoalsThrows(l, ok, failAt)
    \/ \E l \in DOMAIN load, ok \in BOOLEAN : DeriveReturn(l, ok)

NextError ==
    \/ Login(StoreUser)
    \/ Flush
    \/ LoadStart("manual")
    \/ LoadEnds
    \/ UpdateStart("manual", Undefined, Undefined)
    \/ \E u \in DOMAIN upd, r \in ErrorAmounts \cup {Failed} :
         UpdateDailyReturn(u, r)
    \/ \E u \in DOMAIN upd, r \in ErrorAmounts \cup {Failed} :
         UpdateMonthlyReturn(u, r)
    \/ SetDailyGoal(Pool(now)[6])
    \/ SetMonthlyGoal(Pool(now)[7])
    \/ CheckStart("manual")
    \/ \E c \in DOMAIN chk : NotifyDailyReturn(c, TRUE)
    \/ ClearLastCelebration

SpecError == InitError /\ [][NextError]_vars

(***************************************************************************)
(* AppProvider: the effect on [isAuthenticated, user] and loadInitialData. *)
(* useAuth returns a new user object at every sign-in.  The four loaders a *)
(* run awaits catch their own errors.                                      *)
(***************************************************************************)
\* the loadInitialData runs followed at a time
MaxRuns == 2
\* the loaders one run awaits
Loads == 4

\* variant: a guard that never skips
SkipsNever(isLoadingData) == FALSE

\* the guard of loadInitialData, on the isLoadingData of its closure
Skips(isLoadingData) == isLoadingData

\* the effect of the last commit runs, with the isLoadingData of that
\* render: loadInitialData when authenticated, up to its first await
AppEffect ==
    /\ app.pending
    /\ IF user = NoUser \/ Skips(app.isLoadingData)
       THEN app' = [app EXCEPT !.pending = FALSE]
       ELSE /\ Len(app.runs) < MaxRuns
            /\ app' = [app EXCEPT
                          !.pending = FALSE,
                          !.isLoadingData = TRUE,
                          !.loading = TRUE,
                          !.runs = Append(@, [step |-> 1, user |-> user])]
    /\ UNCHANGED <<engineVars, modal, audit>>

\* the loader run i awaits settles; after the last one, finally
LoadReturn(i) ==
    /\ Quiet
    /\ i \in 1..Len(app.runs)
    /\ IF app.runs[i].step < Loads
       THEN app' = [app EXCEPT !.runs[i].step = @ + 1]
       ELSE app' = [app EXCEPT
                      !.loading = FALSE,
                      !.isLoadingData = FALSE,
                      !.runs = SubSeq(@, 1, i - 1)
                                 \o SubSeq(@, i + 1, Len(@))]
    /\ UNCHANGED <<engineVars, modal, audit>>

NextApp ==
    \/ \E u \in Users \cup {OtherUser} : Login(u)
    \/ Logout
    \/ AppEffect
    \/ \E i \in 1..MaxRuns : LoadReturn(i)

\* AppProvider after its first render, the other components not mounted
InitApp ==
    /\ EngineIdle
    /\ budget = MaxEvents
    /\ render = NoRender
    /\ modal = ClosedModal
    /\ app = MountApp
    /\ audit = IdleAudit
    /\ now = MkDate(2024, 5, 15)
    /\ goalStore = << >>
    /\ localStorage = InitStorage(<<NoGoal, NoGoal>>)

SpecApp == InitApp /\ [][NextApp]_vars

(***************************************************************************)
(* AuditAnalytics: the effect on [timeRange], loadAnalytics, and the       *)
(* controls of each screen.  A stats response is named by the request it   *)
(* answers: the time range and the window of dates that were asked for.    *)
(***************************************************************************)
\* the stats requests in flight at a time
MaxRequests == 2

TimeRanges == {"7d", "30d", "90d", "1y"}

\* startDate.setDate(startDate.getDate() - n)
RECURSIVE DaysBack(_, _)
DaysBack(t, n) ==
    IF n < getDate(t) THEN t - n
    ELSE DaysBack(MonthEnd(MonthIndex(t) - 1), n - getDate(t))

\* startDate.setFullYear(startDate.getFullYear() - 1): the same day of the
\* year before, February 29 running over into March 1
YearBack(t) ==
    IF getDate(t) <= DaysInMonth(getFullYear(t) - 1, getMonth(t))
    THEN MkDate(getFullYear(t) - 1, getMonth(t), getDate(t))
    ELSE MkDate(getFullYear(t) - 1, getMonth(t) + 1, 1)

\* the switch on timeRange
startDate(t, timeRange) ==
    CASE timeRange = "7d" -> DaysBack(t, 7)
      [] timeRange = "30d" -> DaysBack(t, 30)
      [] timeRange = "90d" -> DaysBack(t, 90)
      [] timeRange = "1y" -> YearBack(t)
      [] OTHER -> t

\* /audit/stats?start_date=...&end_date=...; the response is named by the
\* request it answers
StatsRequest(t, timeRange) ==
    [timeRange |-> timeRange, start_date |-> startDate(t, timeRange),
     end_date |-> t]

\* loadAnalytics up to its await, with the timeRange of its closure
loadAnalytics(a, timeRange, t) ==
    [a EXCEPT !.loading = TRUE, !.error = "null",
              !.requests = Append(@, StatsRequest(t, timeRange))]

\* a variant that renders the selector and Refresh on every screen
ControlsShownAlways(a) == TRUE

\* the render gets past the spinner, the error card and the card shown
\* without stats: only then are the selector and Refresh on screen
ControlsShown(a) == ~a.loading /\ a.error = "null" /\ a.stats # NoStats

\* the render returns the error card, with Retry
RetryShown(a) == ~a.loading /\ a.error # "null"

\* the effect at mount
AuditMount ==
    /\ ~audit.mounted
    /\ audit' = loadAnalytics([audit EXCEPT !.mounted = TRUE],
                              audit.timeRange, now)
    /\ UNCHANGED <<engineVars, modal, app>>

\* the time range selector: setTimeRange, the render, and the effect
SelectTimeRange(timeRange) ==
    /\ audit.mounted
    /\ ControlsShown(audit)
    /\ timeRange # audit.timeRange
    /\ Len(audit.requests) < MaxRequests
    /\ audit' = loadAnalytics([audit EXCEPT !.timeRange = timeRange],
                              timeRange, now)
    /\ UNCHANGED <<engineVars, modal, app>>

\* the Refresh button: loadAnalytics with the time range of the render
Refresh ==
    /\ audit.mounted
    /\ ControlsShown(audit)
    /\ Len(audit.requests) < MaxRequests
    /\ audit' = loadAnalytics(audit, audit.timeRange, now)
    /\ UNCHANGED <<engineVars, modal, app>>

\* the Retry button of the error card
Retry ==
    /\ audit.mounted
    /\ RetryShown(audit)
    /\ Len(audit.requests) < MaxRequests
    /\ audit' = loadAnalytics(audit, audit.timeRange, now)
    /\ UNCHANGED <<engineVars, modal, app>>

\* request i settles: setStats or setError, then finally setLoading(false)
StatsReturn(i, ok) ==
    /\ i \in 1..Len(audit.requests)
    /\ audit' = [audit EXCEPT
                   !.stats = IF ok THEN audit.requests[i] ELSE @,
                   !.error = IF ok THEN @
                             ELSE "Failed to load audit analytics",
                   !.loading = FALSE,
                   !.requests = SubSeq(@, 1, i - 1)
                                  \o SubSeq(@, i + 1, Len(@))]
    /\ UNCHANGED <<engineVars, modal, app>>

NextAudit ==
    \/ AuditMount
    \/ \E r \in TimeRanges : SelectTimeRange(r)
    \/ Refresh
    \/ Retry
    \/ \E i \in 1..MaxRequests, ok \in BOOLEAN : StatsReturn(i, ok)
    \/ AdvanceDay

InitAudit ==
    /\ EngineIdle
    /\ budget = MaxEvents
    /\ render = NoRender
    /\ modal = ClosedModal
    /\ app = IdleApp
    /\ audit = IdleAudit
    /\ now = MkDate(2024, 5, 15)
    /\ goalStore = << >>
    /\ localStorage = InitStorage(<<NoGoal, NoGoal>>)

SpecAudit == InitAudit /\ [][NextAudit]_vars

(***************************************************************************)
(* Payment: one session of EnhancedPaymentModal, from the moment the       *)
(* parent opens it for a cart.  The user leaves the form alone while a     *)
(* payment is being processed.                                             *)
(***************************************************************************)
\* the modal as the parent renders it for a cart
InitPay ==
    /\ EngineIdle
    /\ budget = MaxEvents
    /\ render = NoRender
    /\ now = MkDate(2024, 5, 15)
    /\ goalStore = << >>
    /\ localStorage = InitStorage(<<NoGoal, NoGoal>>)
    /\ \E totalAmount \in PayTotals :
         modal = [ClosedModal EXCEPT !.totalAmount = totalAmount]
    /\ app = IdleApp
    /\ audit = IdleAudit

Editing ==
    \/ addPaymentMethod
    \/ \E i \in 1..MaxPaymentMethods : removePaymentMethod(i)
    \/ \E i \in 1..MaxPaymentMethods, v \in PayAmounts :
         updatePaymentMethod(i, "amount", v)
    \/ \E i \in 1..MaxPaymentMethods, t \in PaymentTypes :
         updatePaymentMethod(i, "type", t)
    \/ FillRemaining
    \/ SplitEvenly
    \/ resetForm

NextPay ==
    \/ modal.calls = << >> /\ Editing
    \/ handleProcessPayment
    \/ \E ok \in BOOLEAN : ProcessPaymentReturn(ok)

SpecPay == InitPay /\ [][NextPay]_vars

(***************************************************************************)
(* Two stores: one browser on which a user of store S1 and a user of store *)
(* S2 log in one after the other on the same day.  Each store has a daily  *)
(* and a monthly goal; the sales of a day reach the daily targets only.    *)
(* The effects of a commit run, and a notification that is shown settles.  *)
(***************************************************************************)
\* the goal of the second store that corresponds to goal g of the first
OtherGoal(g) ==
    [g EXCEPT !.id = g.id + 2 * PoolSize, !.store_id = "S2",
              !.target_amount = g.target_amount \div 2]

TwoStores(d0) ==
    << Pool(d0)[4], Pool(d0)[2], OtherGoal(Pool(d0)[4]), OtherGoal(Pool(d0)[2]) >>
TwoStoreAmounts == {0, 100}

InitTwoStores ==
    /\ InitEngine
    /\ budget = MaxEvents
    /\ \E d0 \in AchStartDates :
         /\ now = d0
         /\ goalStore = TwoStores(d0)
         /\ localStorage = InitStorage(<<NoGoal, NoGoal>>)

NotifySettles == \E c \in DOMAIN chk : NotifyDailyReturn(c, TRUE)

NextTwoStores ==
    \/ Login(StoreUser)
    \/ Login(OtherUser)
    \/ Logout
    \/ Flush
    \/ \E l \in DOMAIN load : GetGoalsReturn(l, TRUE)
    \/ \E u \in DOMAIN upd, r \in TwoStoreAmounts : UpdateDailyReturn(u, r)
    \/ \E u \in DOMAIN upd, r \in TwoStoreAmounts : UpdateMonthlyReturn(u, r)
    \/ NotifySettles

SpecTwoStores ==
    /\ InitTwoStores
    /\ [][NextTwoStores]_vars
    /\ WF_vars(Flush)
    /\ WF_vars(NotifySettles)

(***************************************************************************)
(* Catch: loadGoals alone, on a mid-month day and on the first day of a    *)
(* month, with every failure it can meet.  The effects of a commit run,    *)
(* and every remote call settles.                                          *)
(***************************************************************************)
CatchStartDates == { MkDate(2024, 5, 15), MkDate(2024, 5, 1) }
CatchStores(d0) ==
    { << >>, <<Pool(d0)[1]>>, <<Pool(d0)[2]>>, <<Pool(d0)[4], Pool(d0)[2]>> }

InitCatch ==
    /\ InitEngine
    /\ budget = CatchEvents
    /\ \E d0 \in CatchStartDates :
         /\ now = d0
         /\ goalStore \in CatchStores(d0)
         /\ localStorage = InitStorage(<<NoGoal, NoGoal>>)

\* the remote call that invocation l awaits settles
LoadReturns(l) ==
    \/ \E ok \in BOOLEAN : GetGoalsReturn(l, ok)
    \/ \E ok \in BOOLEAN, failAt \in SetItemThrows :
         GetGoalsThrows(l, ok, failAt)
    \/ \E ok \in BOOLEAN : CarryReturn(l, ok)
    \/ \E ok \in BOOLEAN, failAt \in SetItemThrows :
         CarryThrows(l, ok, failAt)
    \/ \E ok \in BOOLEAN : DeriveReturn(l, ok)

NextCatch ==
    \/ Login(StoreUser)
    \/ Logout
    \/ Flush
    \/ LoadStart("manual")
    \/ LoadSkip("manual")
    \/ \E l \in DOMAIN load : LoadReturns(l)
    \/ \E u \in DOMAIN upd : UpdateDailyReturn(u, Failed)

SpecCatch ==
    /\ InitCatch
    /\ [][NextCatch]_vars
    /\ WF_vars(Flush)
    /\ \A l \in 1..MaxLoads : WF_vars(LoadReturns(l))

(***************************************************************************)
(* Properties.                                                             *)
(***************************************************************************)
Range(s) == { s[i] : i \in DOMAIN s }

\* loadGoals invocation l has the answer of getGoals
Listed(l) == load[l].pc \in {"carry", "derive", "done"}
\* the step in which the getGoals call of invocation l settles
Settles(l) == load[l].pc = "getGoals" /\ load'[l].pc # "getGoals"
\* the step in which invocation l returns
Returns(l) ==
    load[l].pc \in {"getGoals", "carry", "derive"} /\ load'[l].pc = "done"

LacksBounds(g) == g.period_start = 0 \/ g.period_end = 0
FirstOfMonth(t) == MkDate(getFullYear(t), getMonth(t), 1)
LastOfMonth(t) ==
    MkDate(getFullYear(t), getMonth(t), DaysInMonth(getFullYear(t), getMonth(t)))

\* g is a daily goal for day t: its period overlaps the day, or it has none
CurrentDaily(g, t) ==
    /\ g.goal_type = "daily"
    /\ LacksBounds(g) \/ (g.period_start <= t /\ g.period_end >= t)
\* g is a monthly goal for the month of t
CurrentMonthly(g, t) ==
    /\ g.goal_type = "monthly"
    /\ \/ LacksBounds(g)
       \/ g.period_start <= LastOfMonth(t) /\ g.period_end >= FirstOfMonth(t)
\* g is a monthly goal whose period starts in the month before that of t
PreviousMonthly(g, t) ==
    /\ g.goal_type = "monthly"
    /\ ~LacksBounds(g)
    /\ IF getMonth(t) = 0
       THEN /\ getFullYear(g.period_start) = getFullYear(t) - 1
            /\ getMonth(g.period_start) = 11
       ELSE /\ getFullYear(g.period_start) = getFullYear(t)
            /\ getMonth(g.period_start) = getMonth(t) - 1

\* n = ceil(a / d)
IsCeil(n, a, d) == n * d >= a /\ (n - 1) * d < a

CallsOfType(r, ty) == { i \in DOMAIN r.calls : r.calls[i].goal_type = ty }

\* loadGoals invocation l takes the step that dispatches SET_DAILY_GOAL and
\* SET_MONTHLY_GOAL
Publishes(l) ==
    /\ load[l].pc \in {"getGoals", "carry"}
    /\ load'[l].pc \in {"derive", "done"}

\* C1 (as claimed): every checkGoalAchievements invocation made while
\* dailyProgress.is_achieved holds leaves exactly one daily notification for
\* the current calendar day: it issues the first one or finds it issued.
C1_DailyNotifiedExactlyOnce ==
    [][\A c \in Checkers :
         (CheckStart(c) /\ state.dailyProgress.is_achieved)
           => CopiesIn([track |-> "daily", key |-> toDateString(now)],
                       notifyLog') = 1]_vars

\* C2 (as claimed): a loadGoals whose list call succeeded with an empty list
\* has not read the Local Cache.
C2_NoCacheReadOnEmptyList ==
    \A l \in DOMAIN load :
      (Listed(l) /\ load[l].apiSuccess /\ load[l].remoteLen = 0)
        => ~load[l].cacheRead

\* C2 (amended): the Local Cache is read exactly when the list call throws or
\* returns an empty list; otherwise the candidates are the returned list.
\* When it is read, the candidates are the cached entries that are present
\* and parse, the daily one first, except that a daily entry that does not
\* parse leaves no candidate at all.
C2_CacheReadOnFailureOrEmptyList ==
    [][\A l \in DOMAIN load : Settles(l) =>
         LET r == load'[l]
             d == localStorage.goal_daily[r.store_id]
             m == localStorage.goal_monthly[r.store_id]
             cached == IF d = Malformed THEN << >>
                       ELSE (IF d # NoGoal THEN <<d>> ELSE << >>)
                              \o (IF m \notin {NoGoal, Malformed}
                                  THEN <<m>> ELSE << >>)
         IN /\ r.cacheRead <=> (~r.apiSuccess \/ r.remoteLen = 0)
            /\ ~r.cacheRead => r.existingGoals = getGoals(r.store_id)
            /\ r.cacheRead => r.existingGoals = cached]_vars

\* C2 witness: a list call that succeeded with no goal, after which the cached
\* daily goal was selected
C2_Witness ==
    \E l \in DOMAIN load :
      /\ load[l].pc = "done" /\ load[l].apiSuccess /\ load[l].remoteLen = 0
      /\ load[l].cacheRead
      /\ load[l].dailyGoal # NoGoal
      /\ load[l].dailyGoal \in Range(load[l].existingGoals)

\* C3 (as claimed): the notifier is called at most once per track and period.
C3_AtMostOncePerPeriod ==
    \A e \in BagToSet(notifyLog) : CopiesIn(e, notifyLog) <= 1

\* C4: a monthly createGoal is issued only on day 1 of the month; on any other
\* day, when no candidate is a monthly goal for the current month, the cycle
\* issues none and returns with monthlyGoal null in its result and, when its
\* provider is still mounted, in state.
C4_CarryOverGate ==
    [][\A l \in DOMAIN load : Returns(l) =>
         LET r == load'[l] IN
         /\ CallsOfType(r, "monthly") # {} => getDate(r.now) = 1
         /\ ( /\ getDate(r.now) # 1
              /\ ~\E g \in Range(r.existingGoals) : CurrentMonthly(g, r.now) )
            => /\ CallsOfType(r, "monthly") = {}
               /\ r.monthlyGoal = NoGoal
               /\ r.live => state'.monthlyGoal = NoGoal]_vars

\* C4 witness: a cycle on another day than the first that had last month's
\* goal among its candidates and returned without a monthly goal
C4_Witness ==
    \E l \in DOMAIN load :
      /\ load[l].pc = "done" /\ load[l].live
      /\ getDate(load[l].now) # 1
      /\ \E g \in Range(load[l].existingGoals) : PreviousMonthly(g, load[l].now)
      /\ load[l].monthlyGoal = NoGoal
      /\ load[l].calls = << >>
      /\ state.monthlyGoal = NoGoal

\* C5: on day 1 of a month, with no monthly candidate for the month, no daily
\* candidate for the day and a monthly candidate that starts in the previous
\* month, the cycle issues exactly one monthly createGoal, first, with such a
\* candidate's target and the full current month; when the Goal Store accepts
\* it, the cycle then issues exactly one daily createGoal for today with target
\* ceil(target / days of the month), 3334 for 100000 in a 30 day month.
C5_CarryOverThenDerive ==
    [][\A l \in DOMAIN load : Returns(l) =>
         LET r == load'[l]
             t == r.now
             cands == Range(r.existingGoals)
             dim == DaysInMonth(getFullYear(t), getMonth(t))
         IN ( /\ getDate(t) = 1
              /\ ~\E g \in cands : CurrentMonthly(g, t)
              /\ ~\E g \in cands : CurrentDaily(g, t)
              /\ \E g \in cands : PreviousMonthly(g, t) )
            => /\ Len(r.calls) >= 1
               /\ CallsOfType(r, "monthly") = {1}
               /\ \E g \in cands :
                    /\ PreviousMonthly(g, t)
                    /\ r.calls[1].target_amount = g.target_amount
               /\ r.calls[1].period_start = FirstOfMonth(t)
               /\ r.calls[1].period_end = LastOfMonth(t)
               /\ IF r.monthlyGoal = NoGoal
                  THEN Len(r.calls) = 1
                  ELSE /\ r.monthlyGoal \in Range(goalStore')
                       /\ r.monthlyGoal.target_amount = r.calls[1].target_amount
                       /\ r.monthlyGoal.period_start = FirstOfMonth(t)
                       /\ r.monthlyGoal.period_end = LastOfMonth(t)
                       /\ Len(r.calls) = 2
                       /\ CallsOfType(r, "daily") = {2}
                       /\ IsCeil(r.calls[2].target_amount,
                                 r.monthlyGoal.target_amount, dim)
                       /\ r.calls[2].period_start = t
                       /\ r.calls[2].period_end = t
                       /\ (r.monthlyGoal.target_amount = 100000 /\ dim = 30)
                            => r.calls[2].target_amount = 3334]_vars

\* C5 witness: 1 June 2024, last month's target of 100000 carried over and a
\* daily goal of 3334 created from it
C5_Witness ==
    \E l \in DOMAIN load :
      /\ load[l].pc = "done"
      /\ load[l].now = MkDate(2024, 5, 1)
      /\ Len(load[l].calls) = 2
      /\ load[l].calls[1].goal_type = "monthly"
      /\ load[l].calls[1].target_amount = 100000
      /\ load[l].calls[2].goal_type = "daily"
      /\ load[l].calls[2].target_amount = 3334
      /\ load[l].dailyGoal \in Range(goalStore)
      /\ load[l].monthlyGoal \in Range(goalStore)

\* C6: when no candidate is a daily goal for today and a monthly goal is
\* resolved, the cycle issues a daily createGoal with target
\* ceil(monthly target / d), d = last day of the month - day of month + 1 >= 1,
\* and today as its period; it issues no other daily createGoal.
C6_DailyDerivation ==
    [][\A l \in DOMAIN load : Returns(l) =>
         LET r == load'[l]
             t == r.now
             d == DaysInMonth(getFullYear(t), getMonth(t)) - getDate(t) + 1
         IN /\ d >= 1
            /\ ( /\ r.monthlyGoal # NoGoal
                 /\ ~\E g \in Range(r.existingGoals) : CurrentDaily(g, t) )
               => CallsOfType(r, "daily") # {}
            /\ \A i \in CallsOfType(r, "daily") :
                 /\ r.monthlyGoal # NoGoal
                 /\ IsCeil(r.calls[i].target_amount,
                           r.monthlyGoal.target_amount, d)
                 /\ r.calls[i].period_start = t
                 /\ r.calls[i].period_end = t]_vars

\* C6 witness: on 30 January 2024, two days left, 100000 gives 50000
C6_Witness ==
    \E l \in DOMAIN load :
      /\ load[l].pc = "done"
      /\ load[l].now = MkDate(2024, 0, 30)
      /\ load[l].monthlyGoal.target_amount = 100000
      /\ Len(load[l].calls) = 1
      /\ load[l].calls[1].goal_type = "daily"
      /\ load[l].calls[1].target_amount = 50000

\* C7 (as claimed): when loadGoals returns, state.dailyGoal and
\* state.monthlyGoal are the goals the cycle resolved.
C7_StateHoldsResolvedGoals ==
    [][\A l \in DOMAIN load : (Returns(l) /\ load'[l].live) =>
         /\ state'.dailyGoal = load'[l].dailyGoal
         /\ state'.monthlyGoal = load'[l].monthlyGoal]_vars

\* C8 (as claimed): when loadGoals returns, the Local Cache entry of every
\* track whose goal the cycle resolved is that goal.
C8_WriteThrough ==
    [][\A l \in DOMAIN load : Returns(l) =>
         LET r == load'[l] IN
         /\ r.dailyGoal # NoGoal
              => localStorage'.goal_daily[r.store_id] = r.dailyGoal
         /\ r.monthlyGoal # NoGoal
              => localStorage'.goal_monthly[r.store_id] = r.monthlyGoal]_vars

\* C9: the goal selected for a track is a candidate of that track that is for
\* the current day or month (its period overlaps it, or it lacks bounds), and
\* a track with such a candidate does not select null.
C9_WindowOverlapSelection ==
    [][\A l \in DOMAIN load : Settles(l) =>
         LET r == load'[l]
             cands == Range(r.existingGoals)
         IN /\ r.dailyGoal # NoGoal
                 => r.dailyGoal \in cands /\ CurrentDaily(r.dailyGoal, r.now)
            /\ r.monthlyGoal # NoGoal
                 => r.monthlyGoal \in cands /\ CurrentMonthly(r.monthlyGoal, r.now)
            /\ (\E g \in cands : CurrentDaily(g, r.now)) => r.dailyGoal # NoGoal
            /\ (\E g \in cands : CurrentMonthly(g, r.now))
                 => r.monthlyGoal # NoGoal]_vars

\* C9 witness: last month's goal listed before this month's, this month's
\* selected
C9_Witness ==
    \E l \in DOMAIN load :
      /\ Listed(l)
      /\ Len(load[l].existingGoals) = 2
      /\ PreviousMonthly(load[l].existingGoals[1], load[l].now)
      /\ ~CurrentMonthly(load[l].existingGoals[1], load[l].now)
      /\ load[l].monthlyGoal = load[l].existingGoals[2]

\* C10: a cycle that resolves no monthly goal and has no daily candidate for
\* today issues no daily createGoal and returns with dailyGoal null in its
\* result and, when its provider is still mounted, in state.
C10_NoDailyFromNothing ==
    [][\A l \in DOMAIN load : Returns(l) =>
         LET r == load'[l] IN
         ( /\ r.monthlyGoal = NoGoal
           /\ ~\E g \in Range(r.existingGoals) : CurrentDaily(g, r.now) )
         => /\ CallsOfType(r, "daily") = {}
            /\ r.dailyGoal = NoGoal
            /\ r.live => state'.dailyGoal = NoGoal]_vars

\* C10 witness: a cycle with only yesterday's daily goal as candidate that
\* returned with no goal and no createGoal call
C10_Witness ==
    \E l \in DOMAIN load :
      /\ load[l].pc = "done" /\ load[l].live
      /\ \E g \in Range(load[l].existingGoals) :
           g.goal_type = "daily" /\ ~CurrentDaily(g, load[l].now)
      /\ load[l].monthlyGoal = NoGoal
      /\ load[l].dailyGoal = NoGoal
      /\ load[l].calls = << >>
      /\ state.dailyGoal = NoGoal

\* the progress records of the two tracks
ProgressRecords == {state.dailyProgress, state.monthlyProgress}

\* C11 (as claimed): a progress record computed for a goal with target 0 has
\* percentage 0 and is not achieved, and no celebration is emitted for a goal
\* with target 0.
C11_ZeroTargetSafety ==
    /\ \A p \in ProgressRecords :
         (p.set /\ p.goal.target_amount = 0)
           => p.pct_num = 0 /\ ~p.is_achieved
    /\ state.lastCelebration # NoCelebration
         => state.lastCelebration.goalAmount > 0

\* C12 (as claimed): a progress record computed for a goal with target > 0
\* has percentage current_amount / target_amount * 100 clamped into
\* [0, 999], and is achieved exactly when current_amount >= target_amount.
\* The percentage is the fraction pct_num / pct_den with pct_den the target.
C12_ProgressFormulas ==
    \A p \in ProgressRecords :
      (p.set /\ p.goal.target_amount > 0) =>
        LET t == p.goal.target_amount
            a == p.current_amount
            clamped == IF a * 100 < 0 THEN 0
                       ELSE IF a * 100 > 999 * t THEN 999 * t ELSE a * 100
        IN /\ p.pct_den = t
           /\ p.pct_num = clamped
           /\ p.pct_num >= 0
           /\ p.pct_num <= 999 * p.pct_den
           /\ p.is_achieved <=> a >= t

\* C13 (as claimed): when the daily marker exists and is not today's, the
\* rollover guard leaves lastCelebration null, the daily progress with
\* current_amount 0, percentage 0 and not achieved, and no marker.
C13_RolloverReset ==
    [][(ResetEffect /\ user # NoUser /\ IsNewDay(localStorage, now)) =>
         /\ state'.lastCelebration = NoCelebration
         /\ state'.dailyProgress.current_amount = 0
         /\ state'.dailyProgress.pct_num = 0
         /\ ~state'.dailyProgress.is_achieved
         /\ localStorage'.lastDailyCelebration = 0]_vars

\* loadGoals invocation l is suspended on a remote call
InFlight(l) == load[l].pc \in {"getGoals", "carry", "derive"}
\* updateGoalProgress invocation u is suspended on a remote call
Querying(u) == upd[u].pc \in {"daily", "monthly"}
\* the fields of the engine state that loadGoals and updateGoalProgress set
Applied(st) ==
    <<st.dailyGoal, st.monthlyGoal, st.dailyProgress, st.monthlyProgress,
      st.loading, st.error>>

\* C14 (as claimed): at most one loadGoals cycle is in progress at any time
\* for a store scope.
C14_SingleInFlight ==
    \A l1 \in DOMAIN load, l2 \in DOMAIN load :
      (InFlight(l1) /\ InFlight(l2) /\ load[l1].store_id = load[l2].store_id)
        => l1 = l2

\* C15 (as claimed): a remote call of loadGoals or updateGoalProgress that
\* settles after the user signed out or the provider was unmounted leaves
\* dailyGoal, monthlyGoal, dailyProgress, monthlyProgress, loading and error
\* as they were.
C15_NoApplyAfterTeardown ==
    [][/\ \A l \in DOMAIN load :
            ( /\ InFlight(l) /\ load'[l].pc # load[l].pc
              /\ user = NoUser \/ ~load[l].live )
            => Applied(state') = Applied(state)
       /\ \A u \in DOMAIN upd :
            ( /\ Querying(u) /\ upd'[u].pc # upd[u].pc
              /\ user = NoUser \/ ~upd[u].live )
            => Applied(state') = Applied(state)]_vars

\* C16: the only interval of the progress timer that is outstanding is the
\* one the timer effect of the mounted provider holds, so there is at most
\* one; and once the timer effect of a commit has run, an interval is
\* outstanding exactly when there is an authenticated user.  Remounts,
\* sign-ins, sign-outs and the re-creations that follow a change of the goals
\* keep it so.
C16_TimerHygiene ==
    /\ timers \in {0, 1}
    /\ timers = IF render.interval THEN 1 ELSE 0
    /\ "timer" \notin render.pending => (timers = 1 <=> user # NoUser)

\* C16 witness: goals were published (the timer was re-created), then the user
\* signed out, the effects of that commit have run, and no interval is
\* outstanding
C16_Witness ==
    /\ user = NoUser
    /\ render.pending = {}
    /\ timers = 0
    /\ state.monthlyGoal # NoGoal
    /\ \E l \in DOMAIN load : load[l].pc = "done" /\ load[l].live

\* C17 (as claimed): no updateGoalProgress run starts on the goals in state
\* while a loadGoals that has dispatched its goals is still in flight,
\* awaiting the createGoal of the daily auto-derivation.
C17_ProgressAfterReconciliation ==
    [][\A u \in DOMAIN upd :
         (upd[u].pc \in {"idle", "skipped"} /\ upd'[u].pc = "daily")
           => ~\E l \in DOMAIN load : load[l].pc = "derive" /\ load[l].live]_vars

\* the number of notifications of a track for the current period
DailyCopies(log) == CopiesIn([track |-> "daily", key |-> toDateString(now)], log)
MonthlyCopies(log) == CopiesIn([track |-> "monthly", key |-> MonthKey(now)], log)

\* C18: a failed notification changes neither the Local Cache nor the engine
\* state: the marker set before the call stays (it is the current key as
\* long as the day, or the month, has not changed) and so does
\* lastCelebration; and a checkGoalAchievements that starts when the marker
\* of a track holds the current key neither notifies for that track nor sets
\* its celebration nor touches its marker, in its first step and after its
\* daily notification.
C18_NotifierFailureKeepsRecord ==
    [][/\ \A c \in DOMAIN chk :
            /\ (chk[c].pc = "notifyDaily" /\ chk'[c].pc = "threw")
                 => /\ localStorage' = localStorage
                    /\ state' = state
                    /\ notifyLog' = notifyLog
                    /\ chk[c].now = now
                         => localStorage'.lastDailyCelebration = toDateString(now)
            /\ (chk[c].pc = "notifyMonthly" /\ chk'[c].pc = "threw")
                 => /\ localStorage' = localStorage
                    /\ state' = state
                    /\ notifyLog' = notifyLog
                    /\ MonthKey(chk[c].now) = MonthKey(now)
                         => localStorage'.lastMonthlyCelebration = MonthKey(now)
            /\ ( /\ chk[c].pc = "notifyDaily"
                 /\ chk'[c].pc # "notifyDaily"
                 /\ chk[c].lastMonthlyCelebration = MonthKey(chk[c].now) )
                 => /\ localStorage' = localStorage
                    /\ state' = state
                    /\ notifyLog' = notifyLog
       /\ \A k \in Checkers :
            /\ ( /\ CheckStart(k)
                 /\ localStorage.lastDailyCelebration = toDateString(now) )
                 => /\ DailyCopies(notifyLog') = DailyCopies(notifyLog)
                    /\ localStorage'.lastDailyCelebration
                         = localStorage.lastDailyCelebration
                    /\ state'.lastCelebration.goalType = "daily"
                         => state'.lastCelebration = state.lastCelebration
            /\ ( /\ CheckStart(k)
                 /\ localStorage.lastMonthlyCelebration = MonthKey(now) )
                 => /\ MonthlyCopies(notifyLog') = MonthlyCopies(notifyLog)
                    /\ localStorage'.lastMonthlyCelebration
                         = localStorage.lastMonthlyCelebration
                    /\ state'.lastCelebration.goalType = "monthly"
                         => state'.lastCelebration = state.lastCelebration]_vars

\* C18 witness: the daily notification failed, so the invocation ended before
\* its monthly branch; the daily marker is today's and lastCelebration is the
\* daily celebration
C18_Witness ==
    \E c \in DOMAIN chk :
      /\ chk[c].pc = "threw"
      /\ \A d \in DOMAIN chk \ {c} : chk[d].pc = "idle"
      /\ localStorage.lastDailyCelebration = toDateString(now)
      /\ localStorage.lastMonthlyCelebration = 0
      /\ state.lastCelebration.goalType = "daily"
      /\ state.monthlyProgress.is_achieved
      /\ state.monthlyGoal # NoGoal
      /\ CopiesIn([track |-> "daily", key |-> toDateString(now)], notifyLog) = 1

\* loadGoals is called by l
LoadGoalsCalled(l) == LoadStart(l) \/ LoadSkip(l)
\* updateGoalProgress is called by u
UpdateGoalProgressCalled(u) ==
    \/ UpdateSkip(u)
    \/ \E dashboardMetrics \in Metrics, monthlyMetrics \in Metrics :
         UpdateStart(u, dashboardMetrics, monthlyMetrics)

\* C19: a loadGoals called without an authenticated user, or for a user with
\* no store_id, returns at once: no getGoals call, no createGoal call, no
\* Local Cache access, no state change; an updateGoalProgress called without
\* an authenticated user returns at once: no query, no state change.  This
\* holds whatever other invocations are in flight.
C19_NotAuthenticatedShortCircuit ==
    [][/\ \A l \in Loaders :
            ( /\ LoadGoalsCalled(l)
              /\ user = NoUser \/ user.store_id = "none" )
            => /\ state' = state
               /\ localStorage' = localStorage
               /\ goalStore' = goalStore
               /\ \A i \in DOMAIN load :
                    load'[i] # load[i]
                      => /\ load'[i].pc = "skipped"
                         /\ load'[i].calls = << >>
                         /\ ~load'[i].cacheRead
       /\ \A u \in Updaters :
            (UpdateGoalProgressCalled(u) /\ user = NoUser)
            => /\ state' = state
               /\ localStorage' = localStorage
               /\ \A i \in DOMAIN upd :
                    upd'[i] # upd[i]
                      => /\ upd'[i].pc = "skipped"
                         /\ upd'[i].queries = << >>]_vars

\* C19 witness: after a session that had both goals the user signed out, and
\* loadGoals and updateGoalProgress were both called and returned at once
C19_Witness ==
    /\ user = NoUser
    /\ \E l \in DOMAIN load : load[l].pc = "skipped" /\ load[l].by = "manual"
    /\ \E u \in DOMAIN upd : upd[u].pc = "skipped" /\ upd[u].by = "manual"
    /\ state.dailyGoal # NoGoal
    /\ state.monthlyGoal # NoGoal
    /\ ~state.loading

\* C20: an updateGoalProgress invocation issues the query for 'today' and,
\* once that is answered, the query for 'this_month' and no other; the
\* records it dispatches are those of the two answers and of the goals of its
\* closure, whatever dashboardMetrics and monthlyMetrics the caller passed.
C20_ProgressIgnoresCallerAggregates ==
    [][\A u \in DOMAIN upd :
         /\ (upd[u].pc # "daily" /\ upd'[u].pc = "daily")
              => upd'[u].queries = <<"today">>
         /\ (upd[u].pc = "daily" /\ upd'[u].pc = "monthly")
              => upd'[u].queries = <<"today", "this_month">>
         /\ \A r \in ProgAmounts :
              (UpdateMonthlyReturn(u, r) /\ upd[u].live)
                => /\ upd[u].queries = <<"today", "this_month">>
                   /\ state'.dailyProgress =
                        GoalProgress(upd[u].dailyGoal, upd[u].responses[1])
                   /\ state'.monthlyProgress =
                        GoalProgress(upd[u].monthlyGoal, r)]_vars

\* C20 witness: a consumer passed aggregates of 70, today's answer was 100,
\* and the month's total has been requested
C20_Witness ==
    \E u \in DOMAIN upd :
      /\ upd[u].pc = "monthly"
      /\ upd[u].by = "manual"
      /\ upd[u].dashboardMetrics = 70
      /\ upd[u].monthlyMetrics = 70
      /\ upd[u].dailyAmount = 100
      /\ upd[u].queries = <<"today", "this_month">>

\* C21: a goal in state changes only when a loadGoals of the mounted provider
\* publishes, or by a step that sets that field to a goal a consumer passed
\* and changes nothing else: no other field of the state, not the Goal
\* Store, not the Local Cache, no invocation in flight.
C21_DirectOverride ==
    [][\A f \in {"dailyGoal", "monthlyGoal"} :
         state'[f] # state[f]
           => \/ \E l \in DOMAIN load : Publishes(l) /\ load[l].live
              \/ /\ state'[f] \in OverrideGoals(now)
                 /\ f \in render'.own
                 /\ \A h \in DOMAIN state \ {f} : state'[h] = state[h]
                 /\ UNCHANGED <<goalStore, localStorage, load, upd, chk>>]_vars

\* C21 witness: both goals in state are a consumer's, the Goal Store lists
\* neither, the Local Cache holds neither, and the progress records are still
\* those of the goals loadGoals had published
C21_Witness ==
    /\ state.dailyGoal.id = 6
    /\ state.monthlyGoal.id = 7
    /\ \A i \in DOMAIN goalStore : goalStore[i].id \notin {6, 7}
    /\ \A s \in Stores : /\ localStorage.goal_daily[s].id # 6
                         /\ localStorage.goal_monthly[s].id # 7
    /\ state.dailyProgress.set
    /\ state.dailyProgress.goal.id = 4
    /\ state.monthlyProgress.goal.id = 2

\* C22 (as claimed): once a monthly goal is in state while there is no daily
\* goal and no daily progress record, and the month's sales reach the target,
\* monthly progress is computed and the monthly notification is emitted.
C22_MonthlyTrackAlone ==
    ( /\ user # NoUser
      /\ state.monthlyGoal # NoGoal
      /\ state.dailyGoal = NoGoal
      /\ ~state.dailyProgress.set )
    ~> ( /\ state.monthlyProgress.set
         /\ CopiesIn([track |-> "monthly", key |-> MonthKey(now)], notifyLog) > 0 )

\* C23 (as claimed): when the daily notification of an invocation settles,
\* successfully or not, and the monthly track of that invocation is newly
\* achieved, the invocation persists the monthly marker, sets the monthly
\* celebration, notifies for the month and does not end in an error.
C23_DailyFailureKeepsMonthly ==
    [][\A c \in DOMAIN chk :
         ( /\ chk[c].pc = "notifyDaily"
           /\ chk'[c].pc # "notifyDaily"
           /\ chk[c].monthlyGoal # NoGoal
           /\ chk[c].monthlyProgress.is_achieved
           /\ chk[c].lastMonthlyCelebration # MonthKey(chk[c].now) )
         => /\ localStorage'.lastMonthlyCelebration = MonthKey(chk[c].now)
            /\ state'.lastCelebration.goalType = "monthly"
            /\ notifyLog' =
                 Notified(notifyLog, "monthly", MonthKey(chk[c].now))
            /\ chk'[c].pc # "threw"]_vars

\* C24: when the createGoal of the monthly carry-over fails, loadGoals still
\* publishes the daily goal it found among the candidates, with no monthly
\* goal, leaves error as it was and ends with loading false; a loadGoals that
\* goes on to the daily auto-derivation has put the monthly goal it resolved
\* in state and in the Local Cache, and when that createGoal fails the
\* invocation ends and leaves the goals in state, the Local Cache and error
\* as they were, with loading false.
C24_DerivationFailuresDegrade ==
    [][\A l \in DOMAIN load :
         /\ ( /\ load[l].pc = "carry" /\ load'[l].pc # "carry"
              /\ load[l].live /\ goalStore' = goalStore )
            => /\ load'[l].pc = "done"
               /\ state'.dailyGoal =
                    FindDaily(load[l].existingGoals, load[l].now)
               /\ state'.monthlyGoal = NoGoal
               /\ state'.error = state.error
               /\ ~state'.loading
         /\ ( /\ Publishes(l) /\ load'[l].pc = "derive" /\ load[l].live )
            => /\ load'[l].monthlyGoal # NoGoal
               /\ state'.monthlyGoal = load'[l].monthlyGoal
               /\ localStorage'.goal_monthly[load'[l].store_id]
                    = load'[l].monthlyGoal
         /\ ( /\ load[l].pc = "derive" /\ load'[l].pc # "derive"
              /\ load[l].live /\ goalStore' = goalStore )
            => /\ load'[l].pc = "done"
               /\ state'.dailyGoal = state.dailyGoal
               /\ state'.monthlyGoal = state.monthlyGoal
               /\ localStorage' = localStorage
               /\ state'.error = state.error
               /\ ~state'.loading]_vars

\* C24 witness: the carry-over createGoal failed and loadGoals ended with the
\* daily goal it had found and no monthly goal
C24_Witness ==
    \E l \in DOMAIN load :
      /\ load[l].pc = "done" /\ load[l].live
      /\ Len(load[l].calls) = 1
      /\ load[l].calls[1].goal_type = "monthly"
      /\ load[l].monthlyGoal = NoGoal
      /\ state.dailyGoal # NoGoal
      /\ state.dailyGoal = load[l].dailyGoal
      /\ state.monthlyGoal = NoGoal
      /\ state.error = "null"
      /\ ~state.loading

\* loadGoals invocation l, whose getGoals succeeded, awaits a createGoal
AwaitsCreate(l) ==
    /\ load[l].pc \in {"carry", "derive"}
    /\ load[l].apiSuccess
\* the createGoal call invocation l awaits
PendingCall(l) == load[l].calls[Len(load[l].calls)]

\* C25 (as claimed): no two loadGoals invocations whose listing succeeded
\* have each called createGoal for the same track, period and store.
C25_NoDuplicateAutoCreation ==
    \A l1 \in DOMAIN load, l2 \in DOMAIN load :
      ( /\ AwaitsCreate(l1) /\ AwaitsCreate(l2)
        /\ PendingCall(l1).goal_type = PendingCall(l2).goal_type
        /\ PendingCall(l1).period_start = PendingCall(l2).period_start
        /\ PendingCall(l1).store_id = PendingCall(l2).store_id )
      => l1 = l2

\* day t lies within the period of goal g, an absent bound being open
PeriodContains(g, t) ==
    /\ g.period_start = 0 \/ g.period_start <= t
    /\ g.period_end = 0 \/ g.period_end >= t

\* C26 (as claimed): the goals an updateGoalProgress run takes from state
\* when it starts, and the goals of the records it dispatches, have periods
\* that contain the current day.
C26_ProgressGoalsValid ==
    [][\A u \in DOMAIN upd :
         /\ (upd[u].pc \in {"idle", "skipped"} /\ upd'[u].pc = "daily")
              => /\ PeriodContains(upd'[u].dailyGoal, now)
                 /\ PeriodContains(upd'[u].monthlyGoal, now)
         /\ ( /\ upd[u].pc = "monthly" /\ upd'[u].pc = "idle"
              /\ state'.dailyProgress # state.dailyProgress )
              => PeriodContains(state'.dailyProgress.goal, now)]_vars

\* C27 (as claimed): a tick of the timer that starts the progress computation
\* starts a loadGoals first.
C27_TickReconcilesFirst ==
    [][\A u \in DOMAIN upd :
         ( /\ upd[u].pc \in {"idle", "skipped"}
           /\ upd'[u].pc = "daily" /\ upd'[u].by = "timer" )
         => \E l \in DOMAIN load :
              load[l].pc # "getGoals" /\ load'[l].pc = "getGoals"]_vars

\* C28 (as claimed): a checkGoalAchievements that starts while the daily
\* marker is that of an earlier day and dailyProgress is still achieved (no
\* progress run and no rollover guard has run since midnight, either of which
\* would have removed the marker) sets no daily celebration and adds no daily
\* notification.
C28_NoCelebrationFromStaleProgress ==
    [][\A c \in Checkers :
         ( /\ CheckStart(c)
           /\ localStorage.lastDailyCelebration # 0
           /\ localStorage.lastDailyCelebration # toDateString(now)
           /\ state.dailyProgress.is_achieved )
         => /\ CopiesIn([track |-> "daily", key |-> toDateString(now)], notifyLog')
                 = CopiesIn([track |-> "daily", key |-> toDateString(now)], notifyLog)
            /\ state'.lastCelebration.goalType # "daily"
            /\ localStorage'.lastDailyCelebration # toDateString(now)]_vars

\* the rollover guard runs: from its effect, or at the start of an
\* updateGoalProgress
GuardRuns ==
    \/ ResetEffect
    \/ \E u \in Updaters : UpdateStart(u, Undefined, Undefined)

\* C29: when no daily marker is persisted, or the marker is today's, a run of
\* the rollover guard changes neither the state nor the Local Cache; and no
\* run of the guard changes monthlyProgress, the monthly marker, the goals
\* or the goal backups.
C29_RolloverGuardFrame ==
    [][GuardRuns
         => /\ ( \/ localStorage.lastDailyCelebration = 0
                 \/ localStorage.lastDailyCelebration = toDateString(now) )
               => /\ state' = state
                  /\ localStorage' = localStorage
            /\ state'.monthlyProgress = state.monthlyProgress
            /\ state'.dailyGoal = state.dailyGoal
            /\ state'.monthlyGoal = state.monthlyGoal
            /\ localStorage'.lastMonthlyCelebration
                 = localStorage.lastMonthlyCelebration
            /\ localStorage'.goal_daily = localStorage.goal_daily
            /\ localStorage'.goal_monthly = localStorage.goal_monthly]_vars

\* C29 witness: on the day after a midnight the daily marker is today's, the
\* daily celebration is pending, and an updateGoalProgress that found the
\* marker current at its entry is in flight
C29_Witness ==
    /\ user # NoUser
    /\ advances = 1
    /\ localStorage.lastDailyCelebration = toDateString(now)
    /\ state.lastCelebration.goalType = "daily"
    /\ state.lastCelebration.achieved_at = now
    /\ state.dailyProgress.is_achieved
    /\ state.monthlyProgress.is_achieved
    /\ \E u \in DOMAIN upd :
         upd[u].pc = "daily" /\ upd[u].by = "manual" /\ ~upd[u].resetDaily

\* a Sales Metrics query of invocation u is rejected
QueryFails(u) ==
    UpdateDailyReturn(u, Failed) \/ UpdateMonthlyReturn(u, Failed)

\* C30 (as claimed): when a query of an updateGoalProgress invocation fails,
\* that invocation has replaced neither progress record, the error field is
\* unchanged, and the invocation returns without an error.
C30_FailureKeepsProgress ==
    [][\A u \in DOMAIN upd :
         QueryFails(u)
           => /\ ~upd[u].resetDaily
              /\ state'.dailyProgress = state.dailyProgress
              /\ state'.monthlyProgress = state.monthlyProgress
              /\ state'.error = state.error
              /\ upd'[u] = IdleUpd]_vars

\* C30 (amended): when a query of an updateGoalProgress invocation fails,
\* the invocation dispatches no computed record: the step leaves the state,
\* error included, and the Local Cache as they were, and the invocation
\* returns without an error; the only change the invocation may have made is
\* the reset of dailyProgress by the rollover guard at its entry.
C30_FailureKeepsComputedProgress ==
    [][\A u \in DOMAIN upd :
         QueryFails(u)
           => /\ state' = state
              /\ localStorage' = localStorage
              /\ upd'[u] = IdleUpd]_vars

\* C30 witness: on the day after a midnight an invocation reset dailyProgress
\* at entry, a query failed, and the invocation has returned: dailyProgress is
\* the zero record of the guard, monthlyProgress is the one last computed
C30_Witness ==
    /\ advances = 1
    /\ \A u \in DOMAIN upd : upd[u].pc = "idle"
    /\ state.dailyGoal # NoGoal
    /\ state.dailyProgress = resetDailyProgress(state.dailyGoal)
    /\ state.monthlyProgress.is_achieved
    /\ state.error = "null"

\* a Local Cache entry that is present and parses
WellFormed(entry) == entry # NoGoal /\ entry # Malformed

\* C31 (as claimed): when loadGoals reads the Local Cache and one of the two
\* entries fails to parse, the other entry, if well-formed, is among the
\* candidates, and error is not set.
C31_MalformedEntryIsAMiss ==
    [][\A l \in DOMAIN load :
         ( /\ load[l].pc = "getGoals" /\ load'[l].pc # "getGoals"
           /\ load'[l].cacheRead )
         => LET backupDaily == localStorage.goal_daily[load[l].store_id]
                backupMonthly == localStorage.goal_monthly[load[l].store_id]
            IN /\ (backupDaily = Malformed /\ WellFormed(backupMonthly))
                    => backupMonthly \in Range(load'[l].existingGoals)
               /\ (backupMonthly = Malformed /\ WellFormed(backupDaily))
                    => backupDaily \in Range(load'[l].existingGoals)
               /\ state'.error = "null"]_vars

\* invocation l of loadGoals ends in this step, normally or in its catch
Terminates(l) ==
    /\ InFlight(l) /\ load'[l].pc \in {"done", "caught"}

\* C32: every loadGoals invocation that passed the guard terminates, it never
\* ends with a rejected promise, when it terminates loading is false, and the
\* error field only changes, to the generic message, when an invocation ends
\* in the outer catch because a step outside the inner fallbacks failed.
C32_LoadGoalsTerminates ==
    /\ [][/\ \A l \in DOMAIN load :
               /\ load'[l].pc \in {"idle", "skipped", "getGoals", "carry",
                                    "derive", "done", "caught"}
               /\ (Terminates(l) /\ load'[l].live) => ~state'.loading
          /\ state'.error # state.error
               => /\ state'.error = "Failed to load goals"
                  /\ \E l \in DOMAIN load :
                       Terminates(l) /\ load'[l].pc = "caught"
          /\ \A l \in DOMAIN load :
               (Terminates(l) /\ load'[l].pc = "done")
                   => state'.error = state.error]_vars
    /\ \A l \in 1..MaxLoads : InFlight(l) ~> ~InFlight(l)

\* C32 witness: the loadGoals of the mount ended in the outer catch
C32_Witness ==
    \E l \in DOMAIN load :
      /\ load[l].pc = "caught" /\ load[l].by = "mount"
      /\ ~load[l].apiSuccess
      /\ state.error = "Failed to load goals"
      /\ ~state.loading

\* C35: once the error field holds the generic message, no operation of the
\* engine changes it: not a later loadGoals that succeeds, not a progress
\* update, not a goal setter, not clearLastCelebration.
C35_ErrorIsSticky ==
    [][state.error = "Failed to load goals"
          => state'.error = "Failed to load goals"]_vars

\* C35 witness: after a failure a later loadGoals succeeded and progress was
\* computed, and the message is still there
C35_Witness ==
    /\ state.error = "Failed to load goals"
    /\ \E l \in DOMAIN load : load[l].pc = "done" /\ load[l].apiSuccess
    /\ state.monthlyGoal # NoGoal
    /\ state.dailyProgress # NoProgress
    /\ ~state.loading

\* the engine shows an achieved daily progress of store s to a user of s
ShowsAchieved(s) ==
    /\ user # NoUser /\ user.store_id = s
    /\ state.dailyProgress.set
    /\ state.dailyProgress.is_achieved
    /\ state.dailyProgress.goal # NoGoal
    /\ state.dailyProgress.goal.store_id = s
    /\ state.dailyGoal = state.dailyProgress.goal

\* the daily celebration of store s has been recorded today: it is the last
\* celebration, or the last of two daily celebrations was the other store's
Celebrated(s) ==
    \/ /\ state.lastCelebration.goalType = "daily"
       /\ \E g \in Range(getGoals(s)) :
            /\ g.goal_type = "daily"
            /\ state.lastCelebration.goalAmount = g.target_amount
    \/ CopiesIn([track |-> "daily", key |-> toDateString(now)], notifyLog) >= 2

\* C33 (as claimed): de-duplication is scoped to the store.  Whenever the
\* engine shows an achieved daily progress of store S2 to a user of S2, the
\* daily celebration of S2 gets recorded (or the progress is replaced),
\* whatever was celebrated for store S1 on the same day.
C33_DedupScopedToStore ==
    ShowsAchieved("S2") ~> (Celebrated("S2") \/ ~ShowsAchieved("S2"))

\* the locals of an invocation whose daily branch has fired say that the
\* monthly track is newly achieved too
MonthlyIsNew(rec) ==
    /\ rec.monthlyProgress.is_achieved
    /\ rec.lastMonthlyCelebration # MonthKey(rec.now)
    /\ rec.monthlyGoal # NoGoal

\* C34: when both tracks are newly achieved in one checkGoalAchievements
\* invocation and the notifier succeeds, the daily branch writes the daily
\* marker and issues one daily notification, then the monthly branch writes
\* the monthly marker, issues one monthly notification and replaces
\* lastCelebration by the monthly celebration, and the end of the invocation
\* changes nothing more.
C34_BothTracksCelebrate ==
    [][\A c \in DOMAIN chk :
         /\ ( /\ chk[c].pc \in {"idle", "threw"}
              /\ chk'[c].pc = "notifyDaily"
              /\ MonthlyIsNew(chk'[c]) )
            => /\ localStorage'.lastDailyCelebration = toDateString(now)
               /\ notifyLog' = notifyLog (+) SetToBag(
                     {[track |-> "daily", key |-> toDateString(now)]})
               /\ state'.lastCelebration.goalType = "daily"
         /\ ( /\ chk[c].pc = "notifyDaily"
              /\ MonthlyIsNew(chk[c])
              /\ chk'[c].pc \notin {"notifyDaily", "threw"}
              /\ chk'[c].live = chk[c].live )
            => /\ chk'[c].pc = "notifyMonthly"
               /\ localStorage'.lastMonthlyCelebration = MonthKey(chk[c].now)
               /\ localStorage'.lastDailyCelebration
                     = localStorage.lastDailyCelebration
               /\ notifyLog' = notifyLog (+) SetToBag(
                     {[track |-> "monthly", key |-> MonthKey(chk[c].now)]})
               /\ chk[c].live =>
                     state'.lastCelebration =
                        [goalType |-> "monthly",
                         goalAmount |-> chk[c].monthlyGoal.target_amount,
                         actualAmount |->
                             chk[c].monthlyProgress.current_amount,
                         achieved_at |-> chk[c].now]
         /\ ( /\ chk[c].pc = "notifyMonthly"
              /\ chk'[c].pc = "idle" )
            => UNCHANGED <<state, localStorage, notifyLog>>]_vars

\* C34 witness: an invocation celebrated both tracks and returned
C34_Witness ==
    /\ \A c \in DOMAIN chk : chk[c].pc = "idle"
    /\ localStorage.lastDailyCelebration = toDateString(now)
    /\ localStorage.lastMonthlyCelebration = MonthKey(now)
    /\ state.lastCelebration.goalType = "monthly"
    /\ CopiesIn([track |-> "daily", key |-> toDateString(now)], notifyLog) = 1
    /\ CopiesIn([track |-> "monthly", key |-> MonthKey(now)], notifyLog) = 1
    /\ BagCardinality(notifyLog) = 2

\* C36: the number of payment methods never exceeds 3, and every list of
\* payment methods handed to onProcessPayment has at least one method and
\* pays at least totalAmount.
C36_PaymentGate ==
    /\ Len(modal.paymentMethods) <= 3
    /\ \A i \in 1..Len(modal.calls) :
         /\ Len(modal.calls[i]) >= 1
         /\ getTotalPaid(modal.calls[i]) >= modal.totalAmount

C36_Witness ==
    /\ modal.totalAmount > 0
    /\ modal.calls # << >>
    /\ Len(modal.calls[1]) = 3
    /\ modal.calls[1][1].amount = 9
    /\ modal.paymentMethods = modal.calls[1]

\* C37 (as claimed): with a positive totalAmount and non-negative amounts
\* entered, the amount of every payment method is >= 0.
C37_AmountsNonNegative ==
    (modal.totalAmount > 0 /\ \A v \in PayAmounts : v >= 0)
        => \A i \in 1..Len(modal.paymentMethods) :
              modal.paymentMethods[i].amount >= 0

\* every method but the last is what it was
OthersKept ==
    /\ Len(modal'.paymentMethods) = Len(modal.paymentMethods)
    /\ \A i \in 1..(Len(modal.paymentMethods) - 1) :
         modal'.paymentMethods[i] = modal.paymentMethods[i]

\* C38: a method that is added gets the full totalAmount when it is the
\* first and totalAmount minus what is already paid otherwise, and a change
\* of the amount of the last of two or more methods leaves the total paid
\* at most totalAmount.
C38_SplitHelpers ==
    [][/\ Len(modal'.paymentMethods) = Len(modal.paymentMethods) + 1
          => LET added == modal'.paymentMethods[Len(modal'.paymentMethods)]
             IN /\ SubSeq(modal'.paymentMethods, 1, Len(modal.paymentMethods))
                      = modal.paymentMethods
                /\ added.amount =
                      IF modal.paymentMethods = << >>
                      THEN modal.totalAmount
                      ELSE modal.totalAmount
                             - getTotalPaid(modal.paymentMethods)
       /\ ( /\ Len(modal.paymentMethods) >= 2
            /\ OthersKept
            /\ modal'.paymentMethods[Len(modal.paymentMethods)].amount
                  # modal.paymentMethods[Len(modal.paymentMethods)].amount )
          => getTotalPaid(modal'.paymentMethods) <= modal.totalAmount]_vars

C38_Witness ==
    /\ modal.totalAmount = 6
    /\ Len(modal.paymentMethods) = 3
    /\ modal.paymentMethods[1].amount = 3
    /\ modal.paymentMethods[2].amount = 2
    /\ modal.paymentMethods[3].amount = 1

\* the effect on [isAuthenticated, user] of AppProvider runs in this step
InitialLoadEffectRuns == app.pending /\ ~app'.pending

\* C39: at most one loadInitialData run is in progress; an effect that runs
\* while a run is in flight starts no other; and the end of a run releases
\* the guard, so that an effect which runs for an authenticated user while
\* no run is in flight starts a run for that user.
C39_OneInitialLoad ==
    /\ [](Len(app.runs) <= 1)
    /\ [][/\ (InitialLoadEffectRuns /\ app.runs # << >>)
               => app'.runs = app.runs
          /\ (app.runs # << >> /\ app'.runs = << >>)
               => ~app'.isLoadingData
          /\ (InitialLoadEffectRuns /\ user # NoUser /\ app.runs = << >>)
               => /\ Len(app'.runs) = 1
                  /\ app'.runs[1].user = user]_vars

\* C39 witness: while the run started for one user is in flight another user
\* has signed in, the effect of that commit has run and has started no run
C39_Witness ==
    /\ Len(app.runs) = 1
    /\ app.runs[1].user = StoreUser
    /\ user = OtherUser
    /\ ~app.pending
    /\ app.isLoadingData

\* C40 (as claimed): the time range can be changed while an earlier stats
\* request is still in flight; once every stats request has settled without
\* an error, the stats shown are those of the selected time range; and
\* loading is false only when no request is in flight.
C40_LatestSelectionShown ==
    /\ audit.requests # << >>
          => \E r \in TimeRanges : ENABLED SelectTimeRange(r)
    /\ (audit.mounted /\ audit.requests = << >> /\ audit.error = "null")
          => audit.stats.timeRange = audit.timeRange
    /\ ~audit.loading => audit.requests = << >>

\* C40 (amended): while a stats request is in flight the spinner is shown, so
\* neither the selector nor Refresh nor Retry starts another one and at most
\* one request is in flight; once it has settled without an error the stats
\* shown are those of the selected time range; and, once mounted, loading is
\* false exactly when no request is in flight.
C40_OneRequestAtATime ==
    /\ Len(audit.requests) <= 1
    /\ audit.requests # << >>
          => audit.requests[1].timeRange = audit.timeRange
    /\ (audit.mounted /\ audit.requests = << >> /\ audit.error = "null")
          => audit.stats.timeRange = audit.timeRange
    /\ audit.mounted => (audit.loading <=> audit.requests # << >>)

\* C40 witness: the user has selected 7 days on a later day than the mount,
\* the request has settled and the stats of those 7 days are shown
C40_Witness ==
    /\ audit.mounted
    /\ audit.timeRange = "7d"
    /\ audit.requests = << >>
    /\ audit.error = "null"
    /\ audit.stats = StatsRequest(now, "7d")
    /\ advances = 1
    /\ ControlsShown(audit)

====
